---- MODULE Spec2Model ----
(***************************************************************************)
(* HealthGuardAgent (src/healthcareagent/agent.py): the agent control loop *)
(* that appends the patient turn, asks the LLM provider for completions,   *)
(* scans each completion for the Response / Action / Action Input markers, *)
(* dispatches tool calls and feeds the observations back.                  *)
(*                                                                         *)
(* Text is modelled as a sequence of lexemes.  Each occurrence of one of   *)
(* the four protocol markers is one lexeme (no marker is a substring of,   *)
(* or overlaps, another one), a blank and a line feed are lexemes, and the *)
(* remaining lexemes are words and JSON tokens.  Substring tests, split,   *)
(* strip, replace, startswith, lower and json.loads are computed on these  *)
(* sequences the way the Python code computes them on strings.             *)
(***************************************************************************)
EXTENDS Integers, Sequences, FiniteSets, TLC

(* ---------------------------------------------------------------------- *)
(* Bounds of the exploration                                              *)
(* ---------------------------------------------------------------------- *)
MaxCalls == 3
MaxTurns == 2
MaxLen == 4
MaxRows == 2

(* ---------------------------------------------------------------------- *)
(* Lexemes                                                                *)
(* ---------------------------------------------------------------------- *)
RESPONSE_MARK == "Response:"
ACTION_MARK == "Action:"
INPUT_MARK == "Action Input:"
OBSERVATION_MARK == "Observation:"
SP == " "
NL == "\n"

MED == "medication_tool"
SYM == "symptom_tool"
UNK == "unknown_tool"

Whitespace == {SP, NL}

(* str.lower() on one lexeme: the model's only lexemes with upper-case     *)
(* letters that lower() maps onto another lexeme of the model.             *)
LowerTok(t) ==
  CASE t = "Medication_Tool" -> MED
    [] t = "SYMPTOM_TOOL" -> SYM
    [] t = "Medication" -> "medication"
    [] t = "Tool" -> "tool"
    [] OTHER -> t

Lower(s) == [i \in 1..Len(s) |-> LowerTok(s[i])]

(* `sub in text` for a one-lexeme marker *)
Contains(text, tok) == \E i \in 1..Len(text) : text[i] = tok

(* str.strip(): drop the leading and the trailing whitespace *)
RECURSIVE LStrip(_)
LStrip(s) ==
  IF s # << >> /\ Head(s) \in Whitespace THEN LStrip(Tail(s)) ELSE s

RECURSIVE RStrip(_)
RStrip(s) ==
  IF s # << >> /\ s[Len(s)] \in Whitespace
  THEN RStrip(SubSeq(s, 1, Len(s) - 1))
  ELSE s

Strip(s) == RStrip(LStrip(s))

(* str.split(sep) for a one-lexeme separator: the list of pieces *)
RECURSIVE SplitFrom(_, _, _, _)
SplitFrom(text, sep, i, cur) ==
  IF i > Len(text) THEN << cur >>
  ELSE IF text[i] = sep
       THEN << cur >> \o SplitFrom(text, sep, i + 1, << >>)
       ELSE SplitFrom(text, sep, i + 1, Append(cur, text[i]))

Split(text, sep) == SplitFrom(text, sep, 1, << >>)

(* str.replace(marker, '') : every occurrence of the marker is removed *)
RemoveAll(line, tok) == SelectSeq(line, LAMBDA t : t # tok)

StartsWith(line, tok) == line # << >> /\ line[1] = tok

(* '\n'.join(list) *)
RECURSIVE Join(_, _)
Join(list, sep) ==
  IF list = << >> THEN << >>
  ELSE IF Len(list) = 1 THEN list[1]
  ELSE list[1] \o << sep >> \o Join(Tail(list), sep)

(* ---------------------------------------------------------------------- *)
(* json.loads on the lexemes  { } : "k" 1  and whitespace                 *)
(* ---------------------------------------------------------------------- *)
LBRACE == "{"
RBRACE == "}"
COLON == ":"
JSTR == "\"k\""
DIGIT == "1"

SkipWs(s, i) ==
  IF \E j \in i..Len(s) : s[j] \notin Whitespace
  THEN CHOOSE j \in i..Len(s) :
         /\ s[j] \notin Whitespace
         /\ \A k \in i..(j - 1) : s[k] \in Whitespace
  ELSE Len(s) + 1

(* end of the run of digits that starts at i *)
NumEnd(s, i) ==
  IF \E j \in i..Len(s) : s[j] # DIGIT
  THEN CHOOSE j \in i..Len(s) :
         /\ s[j] # DIGIT
         /\ \A k \in i..(j - 1) : s[k] = DIGIT
  ELSE Len(s) + 1

(* Scans one JSON value that starts at index i; the result is the index    *)
(* after the value, or 0 when there is no value at i (JSONDecodeError).    *)
RECURSIVE ScanValue(_, _)
ScanValue(s, i) ==
  IF i > Len(s) THEN 0
  ELSE IF s[i] = DIGIT THEN NumEnd(s, i)
  ELSE IF s[i] = JSTR THEN i + 1
  ELSE IF s[i] = LBRACE THEN
    LET k == SkipWs(s, i + 1) IN
    IF k > Len(s) THEN 0
    ELSE IF s[k] = RBRACE THEN k + 1
    ELSE IF s[k] # JSTR THEN 0
    ELSE LET c == SkipWs(s, k + 1) IN
         IF c > Len(s) \/ s[c] # COLON THEN 0
         ELSE LET e == ScanValue(s, SkipWs(s, c + 1)) IN
              IF e = 0 THEN 0
              ELSE LET r == SkipWs(s, e) IN
                   IF r > Len(s) \/ s[r] # RBRACE THEN 0 ELSE r + 1
  ELSE 0

(* json.loads(text): the decoded value (its whitespace-free canonical      *)
(* form) or the failure that the caller's `except Exception` swallows.     *)
JsonLoads(text) ==
  LET e == ScanValue(text, SkipWs(text, 1)) IN
  IF e # 0 /\ SkipWs(text, e) = Len(text) + 1
  THEN [ok |-> TRUE, value |-> SelectSeq(text, LAMBDA t : t \notin Whitespace)]
  ELSE [ok |-> FALSE, value |-> << >>]

(* ---------------------------------------------------------------------- *)
(* HealthGuardAgent._parse_action_string                                  *)
(* ---------------------------------------------------------------------- *)
NoAction == [present |-> FALSE, name |-> << >>]

(* ParseLine that starts the argument afresh at every 'Action Input:' line *)
ParseLine_NewSectionResets(st, line) ==
  IF StartsWith(line, ACTION_MARK)
  THEN [st EXCEPT !.action =
          [present |-> TRUE, name |-> Strip(RemoveAll(line, ACTION_MARK))]]
  ELSE IF StartsWith(line, INPUT_MARK)
  THEN LET input_text == Strip(RemoveAll(line, INPUT_MARK)) IN
       [st EXCEPT !.is_action_input = TRUE,
                  !.action_input = IF input_text # << >>
                                   THEN << input_text >> ELSE << >>]
  ELSE IF StartsWith(line, OBSERVATION_MARK)
  THEN [st EXCEPT !.is_action_input = FALSE]
  ELSE IF st.is_action_input /\ Strip(line) # << >>
  THEN [st EXCEPT !.action_input = Append(@, Strip(line))]
  ELSE st

(* ParseLine that looks for the markers after the leading whitespace *)
ParseLine_AfterWhitespace(st, line) ==
  IF StartsWith(LStrip(line), ACTION_MARK)
  THEN [st EXCEPT !.action =
          [present |-> TRUE, name |-> Strip(RemoveAll(line, ACTION_MARK))]]
  ELSE IF StartsWith(LStrip(line), INPUT_MARK)
  THEN LET input_text == Strip(RemoveAll(line, INPUT_MARK)) IN
       [st EXCEPT !.is_action_input = TRUE,
                  !.action_input = IF input_text # << >>
                                   THEN Append(@, input_text) ELSE @]
  ELSE IF StartsWith(LStrip(line), OBSERVATION_MARK)
  THEN [st EXCEPT !.is_action_input = FALSE]
  ELSE IF st.is_action_input /\ Strip(line) # << >>
  THEN [st EXCEPT !.action_input = Append(@, Strip(line))]
  ELSE st

(* ParseLine that keeps the first tool name it has seen *)
ParseLine_FirstWins(st, line) ==
  IF StartsWith(line, ACTION_MARK)
  THEN IF st.action.present THEN st
       ELSE [st EXCEPT !.action =
               [present |-> TRUE, name |-> Strip(RemoveAll(line, ACTION_MARK))]]
  ELSE IF StartsWith(line, INPUT_MARK)
  THEN LET input_text == Strip(RemoveAll(line, INPUT_MARK)) IN
       [st EXCEPT !.is_action_input = TRUE,
                  !.action_input = IF input_text # << >>
                                   THEN Append(@, input_text) ELSE @]
  ELSE IF StartsWith(line, OBSERVATION_MARK)
  THEN [st EXCEPT !.is_action_input = FALSE]
  ELSE IF st.is_action_input /\ Strip(line) # << >>
  THEN [st EXCEPT !.action_input = Append(@, Strip(line))]
  ELSE st

(* ParseLine that appends a continuation line as it stands *)
ParseLine_Verbatim(st, line) ==
  IF StartsWith(line, ACTION_MARK)
  THEN [st EXCEPT !.action =
          [present |-> TRUE, name |-> Strip(RemoveAll(line, ACTION_MARK))]]
  ELSE IF StartsWith(line, INPUT_MARK)
  THEN LET input_text == Strip(RemoveAll(line, INPUT_MARK)) IN
       [st EXCEPT !.is_action_input = TRUE,
                  !.action_input = IF input_text # << >>
                                   THEN Append(@, input_text) ELSE @]
  ELSE IF StartsWith(line, OBSERVATION_MARK)
  THEN [st EXCEPT !.is_action_input = FALSE]
  ELSE IF st.is_action_input /\ Strip(line) # << >>
  THEN [st EXCEPT !.action_input = Append(@, line)]
  ELSE st

(* One iteration of `for line in lines`; st is (action, action_input,      *)
(* is_action_input).                                                       *)
ParseLine(st, line) ==
  IF StartsWith(line, ACTION_MARK)
  THEN [st EXCEPT !.action =
          [present |-> TRUE, name |-> Strip(RemoveAll(line, ACTION_MARK))]]
  ELSE IF StartsWith(line, INPUT_MARK)
  THEN LET input_text == Strip(RemoveAll(line, INPUT_MARK)) IN
       [st EXCEPT !.is_action_input = TRUE,
                  !.action_input = IF input_text # << >>
                                   THEN Append(@, input_text) ELSE @]
  ELSE IF StartsWith(line, OBSERVATION_MARK)
  THEN [st EXCEPT !.is_action_input = FALSE]
  ELSE IF st.is_action_input /\ Strip(line) # << >>
  THEN [st EXCEPT !.action_input = Append(@, Strip(line))]
  ELSE st

RECURSIVE ParseLines(_, _)
ParseLines(st, lines) ==
  IF lines = << >> THEN st
  ELSE ParseLines(ParseLine(st, Head(lines)), Tail(lines))

(* ParseActionString that never attempts json.loads: always the raw text *)
ParseActionString_NoDecode(text) ==
  LET st == ParseLines([action |-> NoAction, action_input |-> << >>,
                        is_action_input |-> FALSE], Split(text, NL))
  IN [action |-> st.action,
      action_input |-> [json |-> FALSE, value |-> Join(st.action_input, NL)]]

(* The returned pair (action, action_input).  action_input is the joined   *)
(* text, replaced by the decoded value when json.loads accepts it.         *)
ParseActionString(text) ==
  LET st == ParseLines([action |-> NoAction, action_input |-> << >>,
                        is_action_input |-> FALSE], Split(text, NL))
      joined == Join(st.action_input, NL)
      decoded == JsonLoads(joined)
  IN [action |-> st.action,
      action_input |-> IF decoded.ok
                       THEN [json |-> TRUE, value |-> decoded.value]
                       ELSE [json |-> FALSE, value |-> joined]]

(* ---------------------------------------------------------------------- *)
(* The texts the agent builds                                             *)
(* ---------------------------------------------------------------------- *)
APOLOGY ==
  << "I apologize, but I encountered a technical issue. Please try again or contact support if the problem persists." >>

CLEARED == << "Conversation history cleared." >>

(* PatientMessage without the "Patient: " prefix *)
PatientMessage_Bare(prompt) == prompt

PatientMessage(prompt) == << "Patient:", SP >> \o prompt

(* str(action) inside the f-string: None prints as the word None *)
ActionStr(action) == IF action.present THEN action.name ELSE << "None" >>

(* str(list(self.tools.keys())) *)
KeysStr(keys) == << "[" >> \o Join([i \in 1..Len(keys) |-> << keys[i] >>], ",") \o << "]" >>

TOOL_QUOTE == "Tool '"
NOT_FOUND == "' not found. Available tools: "
TOOL_ERROR == "There was an error executing the tool."
ERROR_LABEL == "Error: "

(* ToolResultObservation without the "Observation: " prefix *)
ToolResultObservation_NoPrefix(tool_observation) == tool_observation

ToolResultObservation(tool_observation) ==
  << OBSERVATION_MARK, SP >> \o tool_observation

(* ToolNotFoundObservation without the list of the registered names *)
ToolNotFoundObservation_NoList(action, keys) ==
  << OBSERVATION_MARK, SP, TOOL_QUOTE >> \o ActionStr(action)
     \o << "' not found." >>

ToolNotFoundObservation(action, keys) ==
  << OBSERVATION_MARK, SP, TOOL_QUOTE >> \o ActionStr(action)
     \o << NOT_FOUND >> \o KeysStr(keys)

ToolErrorObservation(e) ==
  << OBSERVATION_MARK, SP, TOOL_ERROR, NL, ERROR_LABEL, e >>

(* ToolFound that compares the name as written, without lower() *)
ToolFound_CaseSensitive(action, reg) ==
  /\ action.present
  /\ action.name # << >>
  /\ Len(Strip(action.name)) = 1
  /\ Strip(action.name)[1] \in {reg[i] : i \in 1..Len(reg)}

(* `action and action.strip().lower() in self.tools`: the key of the tool  *)
(* to run, or no key                                                       *)
Keys(reg) == {reg[i] : i \in 1..Len(reg)}

ToolFound(action, reg) ==
  /\ action.present
  /\ action.name # << >>
  /\ Len(Strip(action.name)) = 1
  /\ Lower(Strip(action.name))[1] \in Keys(reg)

(* FinalResponse with the piece after the FIRST marker: split(...)[1] *)
FinalResponse_FirstMarker(response) ==
  LET pieces == Split(response, RESPONSE_MARK) IN
  Strip(pieces[IF Len(pieces) > 1 THEN 2 ELSE 1])

(* response.split("Response:")[-1].strip() *)
FinalResponse(response) ==
  LET pieces == Split(response, RESPONSE_MARK) IN Strip(pieces[Len(pieces)])

(* Branch with the tool-step test placed before the final-response test *)
Branch_ToolFirst(response) ==
  IF Contains(response, ACTION_MARK) /\ Contains(response, INPUT_MARK)
  THEN "tool"
  ELSE IF Contains(response, RESPONSE_MARK) THEN "final"
  ELSE "loop"

(* Branch that dispatches as soon as one of the two markers is present *)
Branch_EitherMarker(response) ==
  IF Contains(response, RESPONSE_MARK) THEN "final"
  ELSE IF Contains(response, ACTION_MARK) \/ Contains(response, INPUT_MARK)
  THEN "tool"
  ELSE "loop"

(* The branch of the loop body taken for a completion *)
Branch(response) ==
  IF Contains(response, RESPONSE_MARK) THEN "final"
  ELSE IF Contains(response, ACTION_MARK) /\ Contains(response, INPUT_MARK)
  THEN "tool"
  ELSE "loop"

(* OnException returning the text of the exception, as                     *)
(* LLMHealthTool.get_llm_response does                                     *)
OnException_ErrorText(e) ==
  [kind |-> "apology", text |-> << "Error: Unable to get AI response. ", e >>]

(* what `except Exception as e` of __call__ returns *)
OnException(e) == [kind |-> "apology", text |-> APOLOGY]

(* ---------------------------------------------------------------------- *)
(* The environment: registries, patient prompts, completions, outcomes    *)
(* ---------------------------------------------------------------------- *)
WORD == "ok"
OTHER_WORD == "pill"

(* HealthTool.model_post_init: name.lower().replace(' ', '_'), on the tool  *)
(* names that the constructor is given                                     *)
NormalizeName(name) ==
  CASE name = "Medication Tool" -> MED
    [] name = "medication tool" -> MED
    [] name = "Symptom Tool" -> SYM
    [] OTHER -> name

(* dict(zip(tool_names, tools)): the entries (key, position of the tool in *)
(* the list) in insertion order; a key that occurs again keeps its place   *)
(* and takes the later tool.                                               *)
RECURSIVE ZipDict(_, _, _)
ZipDict(names, i, dict) ==
  IF i > Len(names) THEN dict
  ELSE LET key == NormalizeName(names[i]) IN
       IF \E j \in 1..Len(dict) : dict[j].key = key
       THEN ZipDict(names, i + 1,
                    [j \in 1..Len(dict) |->
                       IF dict[j].key = key THEN [key |-> key, tool |-> i] ELSE dict[j]])
       ELSE ZipDict(names, i + 1, Append(dict, [key |-> key, tool |-> i]))

FormatTools(names) == ZipDict(names, 1, << >>)

DictKeys(dict) == [j \in 1..Len(dict) |-> dict[j].key]

(* the tool lists the constructor is given (the tools' names) *)
ToolLists == { << "Medication Tool", "Symptom Tool" >>, << "Symptom Tool" >> }

(* the keys of self.tools, in the order of the constructor's tool list *)
Registries == { DictKeys(FormatTools(names)) : names \in ToolLists }

Prompts == { << "hello" >> }

SYSTEM_PROMPT == << "You are HealthGuard" >>

(* Completions the provider may return.  Each one is a shape of LLM output *)
(* that the loop or the parser treats differently.                         *)
FinalOnly == << "Thought:", SP, WORD, NL, RESPONSE_MARK, SP, WORD, SP, OTHER_WORD, NL >>
FinalTwice == << RESPONSE_MARK, SP, WORD, NL, RESPONSE_MARK, SP, OTHER_WORD >>
FinalEmpty == << WORD, RESPONSE_MARK, SP >>
FinalAndAction ==
  << ACTION_MARK, SP, MED, NL, INPUT_MARK, SP, WORD, NL,
     OBSERVATION_MARK, SP, WORD, NL, RESPONSE_MARK, SP, OTHER_WORD >>
FinalThenAction ==
  << RESPONSE_MARK, SP, WORD, NL, ACTION_MARK, SP, SYM, NL, INPUT_MARK, SP, WORD >>
ToolJson ==
  << "Thought:", SP, WORD, NL, ACTION_MARK, SP, MED, NL,
     INPUT_MARK, SP, LBRACE, JSTR, COLON, SP, DIGIT, RBRACE, NL,
     OBSERVATION_MARK >>
ToolRaw == << ACTION_MARK, SP, SYM, NL, INPUT_MARK, SP, WORD, SP, OTHER_WORD >>
ToolUpperCase ==
  << ACTION_MARK, SP, SP, "Medication_Tool", SP, NL, INPUT_MARK, SP, DIGIT, SP, DIGIT >>
ToolMultiLine ==
  << ACTION_MARK, SP, MED, NL, INPUT_MARK, SP, LBRACE, NL, SP, JSTR, COLON, DIGIT, SP, NL,
     NL, RBRACE, NL, OBSERVATION_MARK, SP, WORD, NL, OTHER_WORD >>
ToolUnknown == << ACTION_MARK, SP, UNK, NL, INPUT_MARK, SP, WORD >>
ToolMidLine == << SP, ACTION_MARK, SP, MED, NL, INPUT_MARK, SP, WORD >>
ToolEmptyName == << ACTION_MARK, SP, NL, INPUT_MARK, SP, WORD >>
ToolTwoActions ==
  << ACTION_MARK, SP, UNK, NL, ACTION_MARK, SP, SYM, NL, INPUT_MARK, NL, WORD >>
ToolInputMidLine == << ACTION_MARK, SP, MED, NL, WORD, SP, INPUT_MARK, SP, JSTR >>
ToolTwoInputs ==
  << ACTION_MARK, SP, SYM, NL, INPUT_MARK, SP, WORD, NL, OBSERVATION_MARK, NL,
     INPUT_MARK, SP, OTHER_WORD >>
ActionOnly == << ACTION_MARK, SP, MED >>
InputOnly == << INPUT_MARK, SP, WORD >>
PlainText == << WORD, SP, OTHER_WORD >>
EmptyText == << >>

Completions ==
  { FinalOnly, FinalTwice, FinalEmpty, FinalAndAction, FinalThenAction,
    ToolJson, ToolRaw, ToolUpperCase, ToolMultiLine, ToolUnknown, ToolMidLine,
    ToolEmptyName, ToolTwoActions, ToolInputMidLine, ToolTwoInputs,
    ActionOnly, InputOnly, PlainText, EmptyText }

(* str(e) of the exceptions a provider call may raise *)
ProviderErrors == { "timeout", "quota exceeded" }

(* what a tool's run() may return, and str(e) of what it may raise *)
ToolOutputs == { << "done" >> }
ToolErrors == { "database is locked" }

(* ---------------------------------------------------------------------- *)
(* State                                                                  *)
(* ---------------------------------------------------------------------- *)
VARIABLES
  given,      \* the tool list handed to the constructor (the tools' names)
  tools,      \* self.tools: the registry keys, in insertion order
  messages,   \* self.messages
  pc,         \* position of __call__: "idle", "awaiting" (provider call), "tool" (_tool_call)
  response,   \* the local `response` of the current loop iteration
  result,     \* what the last call of __call__ / clear_conversation returned
  sent,       \* the conversation handed to the provider at its latest call
  runs,       \* the invocations of tool.run so far (their side effects)
  round,      \* completed iterations of `while True` in the current turn
  calls,      \* provider calls issued so far
  turns,      \* calls of __call__ so far
  history,    \* what the latest get_conversation_history() returned
  chat_history, \* the caller's st.session_state.chat_history (app.py)
  saved,      \* the transcript that the caller's last save wrote, << >> before any
  patient_id, \* st.session_state.patient_id (app.py)
  files,      \* the chat_history_<id>.json files of the data directory
  agent,      \* st.session_state.agent: "HealthGuardAgent" or "None" (app.py)
  agent_initialized, \* st.session_state.agent_initialized (app.py)
  parse_text, \* the argument `text` of a call of _parse_action_string
  parse_result, \* what that call returned, NotParsed before it
  peer,       \* a second agent instance: its messages, pc, response and result
  medications,     \* the rows of the table medications (tools/medication.py)
  medication_logs, \* the rows of the table medication_logs
  med_call,        \* the latest call of MedicationTool.run: request and outcome
  symptoms,        \* the rows of the table symptoms (tools/symptom.py)
  symptom_call,    \* the latest call of SymptomTool.run: request and outcome
  ares_api_key,    \* MedicalInfoTool.ares_api_key
  info_call,       \* the call of MedicalInfoTool.run: prompt and outcome
  ares_requests,   \* the queries posted to the Ares search API so far
  llm_requests     \* the system prompts MedicalInfoTool asked the language model with

vars == << given, tools, messages, pc, response, result, sent, runs, round, calls,
           turns, history, chat_history, saved, patient_id, files, agent,
           agent_initialized, parse_text, parse_result, peer,
           medications, medication_logs, med_call, symptoms, symptom_call,
           ares_api_key, info_call, ares_requests, llm_requests >>

Message(role, content) == [role |-> role, content |-> content]

NoResult == [kind |-> "none", text |-> << >>]

(* get_initial_welcome_message, app.py *)
WELCOME ==
  << "Welcome to HealthGuard! How can I assist you with your health management today?" >>

(* ---------------------------------------------------------------------- *)
(* The transcript files (app.py save_chat_history / load_chat_history).    *)
(* A patient identifier is a sequence of characters; a file holds the      *)
(* JSON text that json.dump wrote, as a sequence of JSON tokens.           *)
(* ---------------------------------------------------------------------- *)
DEFAULT_PATIENT ==
  << "d", "e", "f", "a", "u", "l", "t", "_", "p", "a", "t", "i", "e", "n", "t" >>

(* the characters c of the identifiers for which c.isalnum() holds *)
Alnum == { "a", "d", "e", "f", "i", "l", "n", "p", "t", "u", "1", "2" }

(* "".join(c for c in patient_id if c.isalnum() or c in ('_', '-'))        *)
(* .rstrip(), with the fallback for an empty result                        *)
SafePatientId(id) ==
  LET kept == RStrip(SelectSeq(id, LAMBDA c : c \in Alnum \/ c \in { "_", "-" })) IN
  IF kept = << >> THEN DEFAULT_PATIENT ELSE kept

(* what the patient-id text input may hold *)
PatientIds == { DEFAULT_PATIENT, << "p", "1" >>, << "p", " ", "1" >>, << " " >> }

FileKeys == { SafePatientId(id) : id \in PatientIds }

NoFile == [exists |-> FALSE, text |-> << >>]

BACKSLASH_N == "\\n"

(* the lexemes that json.dump writes escaped inside a string *)
EscapeTable ==
  (NL :> "\\n") @@ (JSTR :> "\\\"k\\\"") @@ (BACKSLASH_N :> "\\\\n")

EscapeTok(t) == IF t \in DOMAIN EscapeTable THEN EscapeTable[t] ELSE t

UnescapeTok(t) ==
  IF \E k \in DOMAIN EscapeTable : EscapeTable[k] = t
  THEN CHOOSE k \in DOMAIN EscapeTable : EscapeTable[k] = t
  ELSE t

Punct(c) == [t |-> "punct", v |-> << c >>]

INDENT == [t |-> "ws", v |-> << NL, SP, SP >>]

(* a str written by json.dump: quoted, its characters escaped *)
JsonDumpString(text) ==
  [t |-> "string", v |-> [i \in 1..Len(text) |-> EscapeTok(text[i])]]

(* one {"role": ..., "content": ...} dict, keys in insertion order *)
JsonDumpRecord(m) ==
  << Punct("{"), INDENT,
     JsonDumpString(<< "role" >>), Punct(":"), JsonDumpString(<< m.role >>),
     Punct(","), INDENT,
     JsonDumpString(<< "content" >>), Punct(":"), JsonDumpString(m.content),
     INDENT, Punct("}") >>

(* json.dump(chat_history, f, indent=2) *)
JsonDump(list) ==
  IF list = << >> THEN << Punct("["), Punct("]") >>
  ELSE << Punct("["), INDENT >>
       \o Join([i \in 1..Len(list) |-> JsonDumpRecord(list[i])], Punct(","))
       \o << INDENT, Punct("]") >>

JsonString(tok) == [i \in 1..Len(tok.v) |-> UnescapeTok(tok.v[i])]

(* one item of the list at tokens i..i+8 of s: a dict with two string keys  *)
(* and string values                                                       *)
IsJsonItem(s, i) ==
  /\ i + 8 <= Len(s)
  /\ s[i] = Punct("{") /\ s[i + 4] = Punct(",") /\ s[i + 8] = Punct("}")
  /\ s[i + 2] = Punct(":") /\ s[i + 6] = Punct(":")
  /\ \A j \in { i + 1, i + 3, i + 5, i + 7 } : s[j].t = "string"

(* the dict of the item at i: its (key, value) pairs in file order; a key   *)
(* that occurs twice keeps the later value                                 *)
JsonItem(s, i) ==
  LET k1 == JsonString(s[i + 1])  v1 == JsonString(s[i + 3])
      k2 == JsonString(s[i + 5])  v2 == JsonString(s[i + 7])
  IN IF k1 = k2 THEN << [key |-> k2, value |-> v2] >>
     ELSE << [key |-> k1, value |-> v1], [key |-> k2, value |-> v2] >>

(* json.load(f) on a file of this shape: the list of dicts, or the failure  *)
(* (JSONDecodeError, or a value that is not such a list)                   *)
JsonLoad(text) ==
  LET s == SelectSeq(text, LAMBDA k : k.t # "ws")
      n == Len(s)
      count == (n - 1) \div 10
  IN IF n >= 2 /\ s[1] = Punct("[") /\ s[n] = Punct("]") /\ n = 2
     THEN [ok |-> TRUE, value |-> << >>]
     ELSE IF /\ n >= 2 /\ s[1] = Punct("[") /\ s[n] = Punct("]")
             /\ n = 10 * count + 1
             /\ \A i \in 1..count :
                  /\ IsJsonItem(s, 10 * i - 8)
                  /\ i < count => s[10 * i + 1] = Punct(",")
     THEN [ok |-> TRUE, value |-> [i \in 1..count |-> JsonItem(s, 10 * i - 8)]]
     ELSE [ok |-> FALSE, value |-> << >>]

HasKey(item, key) == \E j \in 1..Len(item) : item[j].key = << key >>

Get(item, key) == item[CHOOSE j \in 1..Len(item) : item[j].key = << key >>].value

(* get_initial_welcome_message, app.py *)
InitialWelcomeMessage == << Message("assistant", WELCOME) >>

(* save_chat_history writing the records in reverse order *)
SaveChatHistory_Reversed(history_, id, fs) ==
  IF history_ = << >> THEN fs
  ELSE [fs EXCEPT ![SafePatientId(id)] =
          [exists |-> TRUE,
           text |-> JsonDump([i \in 1..Len(history_) |-> history_[Len(history_) + 1 - i]])]]

(* save_chat_history: nothing is written for an empty history *)
SaveChatHistory(history_, id, fs) ==
  IF history_ = << >> THEN fs
  ELSE [fs EXCEPT ![SafePatientId(id)] = [exists |-> TRUE, text |-> JsonDump(history_)]]

(* load_chat_history: the records of the file of this identifier, or the   *)
(* welcome message when there is no file or its content is not valid       *)
LoadChatHistory(id, fs) ==
  LET f == fs[SafePatientId(id)]
      loaded == JsonLoad(f.text)
  IN IF /\ f.exists
        /\ loaded.ok
        /\ \A i \in 1..Len(loaded.value) :
             HasKey(loaded.value[i], "role") /\ HasKey(loaded.value[i], "content")
     THEN [i \in 1..Len(loaded.value) |->
             Message(Get(loaded.value[i], "role")[1], Get(loaded.value[i], "content"))]
     ELSE InitialWelcomeMessage

(* ---------------------------------------------------------------------- *)
(* The tools (src/healthcareagent/tools)                                   *)
(* ---------------------------------------------------------------------- *)
(* A value of a decoded JSON text: its Python type t, its number n and its *)
(* characters s.  A string is the sequence of its characters where the     *)
(* code looks inside it, and one whole text elsewhere; a finite float is   *)
(* given in tenths; the floats inf and nan are what json.loads makes of    *)
(* Infinity and NaN.  A dictionary is a function from its keys to values.  *)
(* A returned f-string is its format with the values put into it.          *)
Py(t, n, s) == [t |-> t, n |-> n, s |-> s]

(* str.lower() on a string of characters *)
LowerStr(s) ==
  LET UpperCase == << "A", "B", "C", "D", "E", "F", "G", "H", "I", "J", "K", "L", "M", "N", "O", "P", "Q", "R", "S", "T", "U", "V", "W", "X", "Y", "Z" >>
      LowerCase == << "a", "b", "c", "d", "e", "f", "g", "h", "i", "j", "k", "l", "m", "n", "o", "p", "q", "r", "s", "t", "u", "v", "w", "x", "y", "z" >>
  IN  [i \in 1..Len(s) |->
         IF \E j \in 1..26 : UpperCase[j] = s[i]
         THEN LowerCase[CHOOSE j \in 1..26 : UpperCase[j] = s[i]]
         ELSE s[i]]

(* dict.get(key, default) *)
DictGet(d, key, default) == IF key \in DOMAIN d THEN d[key] ELSE default

(* cursor.execute fails: a parameter that sqlite3 cannot bind, or NULL for *)
(* a NOT NULL column; the exception leaves the `with` block, which rolls   *)
(* back, and is caught by the method's except clause                       *)
StatementFails(values, not_null) ==
  \/ \E k \in DOMAIN values : values[k].t \notin {"str", "int", "bool", "float", "NoneType"}
  \/ \E k \in not_null \cap DOMAIN values : values[k].t = "NoneType"

(* the rows the tools' _init_db write for the demo patient into empty      *)
(* tables                                                                  *)
SampleData ==
  [symptoms |->
     << [id |-> 1, patient_id |-> Py("str", 0, << "demo_patient_001" >>), symptom |-> Py("str", 0, << "Headache" >>), severity |-> Py("int", 6, << >>), description |-> Py("str", 0, << "Pressure behind eyes" >>),
          date_recorded |-> Py("str", 0, << "two_days_ago" >>), duration |-> Py("str", 0, << "2 hours" >>), triggers |-> Py("str", 0, << "Stress" >>), created_at |-> Py("str", 0, << "two_days_ago" >>)],
        [id |-> 2, patient_id |-> Py("str", 0, << "demo_patient_001" >>), symptom |-> Py("str", 0, << "Fatigue" >>), severity |-> Py("int", 7, << >>), description |-> Py("str", 0, << "Feeling sluggish all day" >>),
          date_recorded |-> Py("str", 0, << "yesterday" >>), duration |-> Py("str", 0, << "All day" >>), triggers |-> Py("str", 0, << "Poor sleep" >>), created_at |-> Py("str", 0, << "yesterday" >>)],
        [id |-> 3, patient_id |-> Py("str", 0, << "demo_patient_001" >>), symptom |-> Py("str", 0, << "Headache" >>), severity |-> Py("int", 4, << >>), description |-> Py("str", 0, << "Mild throbbing" >>),
          date_recorded |-> Py("str", 0, << "created" >>), duration |-> Py("str", 0, << "Ongoing" >>), triggers |-> Py("str", 0, << "Screen time" >>), created_at |-> Py("str", 0, << "created" >>)] >>,
   medications |->
     << [id |-> 1, patient_id |-> Py("str", 0, << "demo_patient_001" >>), name |-> Py("str", 0, << "Lisinopril" >>), dosage |-> Py("str", 0, << "10mg" >>), frequency |-> Py("str", 0, << "Once daily" >>),
          time_of_day |-> Py("str", 0, << "Morning" >>), notes |-> Py("str", 0, << "For blood pressure" >>), start_date |-> Py("str", 0, << "yesterday" >>), end_date |-> Py("str", 0, << >>),
          created_at |-> Py("str", 0, << "created" >>), updated_at |-> Py("str", 0, << "created" >>)],
        [id |-> 2, patient_id |-> Py("str", 0, << "demo_patient_001" >>), name |-> Py("str", 0, << "Metformin" >>), dosage |-> Py("str", 0, << "500mg" >>), frequency |-> Py("str", 0, << "Twice daily" >>),
          time_of_day |-> Py("str", 0, << "Morning, Evening" >>), notes |-> Py("str", 0, << "For blood sugar" >>), start_date |-> Py("str", 0, << "two_days_ago" >>), end_date |-> Py("str", 0, << >>),
          created_at |-> Py("str", 0, << "created" >>), updated_at |-> Py("str", 0, << "created" >>)],
        [id |-> 3, patient_id |-> Py("str", 0, << "demo_patient_001" >>), name |-> Py("str", 0, << "Vitamin D" >>), dosage |-> Py("str", 0, << "1000 IU" >>), frequency |-> Py("str", 0, << "Once daily" >>),
          time_of_day |-> Py("str", 0, << "Anytime" >>), notes |-> Py("NoneType", 0, << >>), start_date |-> Py("str", 0, << "yesterday" >>), end_date |-> Py("str", 0, << >>),
          created_at |-> Py("str", 0, << "created" >>), updated_at |-> Py("str", 0, << "created" >>)] >>,
   medication_logs |->
     << [id |-> 1, medication_id |-> Py("int", 1, << >>), taken_at |-> Py("str", 0, << "yesterday" >>), taken |-> Py("bool", 1, << >>), notes |-> Py("str", 0, << "Taken with breakfast" >>)],
        [id |-> 2, medication_id |-> Py("int", 2, << >>), taken_at |-> Py("str", 0, << "two_days_ago" >>), taken |-> Py("bool", 1, << >>), notes |-> Py("str", 0, << "Taken morning dose" >>)],
        [id |-> 3, medication_id |-> Py("int", 2, << >>), taken_at |-> Py("str", 0, << "yesterday" >>), taken |-> Py("bool", 0, << >>), notes |-> Py("str", 0, << "Forgot evening dose" >>)],
        [id |-> 4, medication_id |-> Py("int", 1, << >>), taken_at |-> Py("str", 0, << "created" >>), taken |-> Py("bool", 1, << >>), notes |-> Py("str", 0, << "Taken morning dose" >>)] >>]

(* ---------------------------------------------------------------------- *)
(* SymptomTool (tools/symptom.py)                                          *)
(* ---------------------------------------------------------------------- *)
(* Severity without max(1, min(10, .)): the converted number is stored as  *)
(* it is                                                                   *)
Severity_Unclamped(value) ==
  LET severity_map ==
        { << << "m", "i", "l", "d" >>, 3 >>,
          << << "l", "i", "g", "h", "t" >>, 3 >>,
          << << "m", "i", "n", "o", "r" >>, 2 >>,
          << << "m", "i", "n", "i", "m", "a", "l" >>, 1 >>,
          << << "s", "l", "i", "g", "h", "t" >>, 2 >>,
          << << "m", "o", "d", "e", "r", "a", "t", "e" >>, 5 >>,
          << << "m", "e", "d", "i", "u", "m" >>, 5 >>,
          << << "a", "v", "e", "r", "a", "g", "e" >>, 5 >>,
          << << "s", "e", "v", "e", "r", "e" >>, 8 >>,
          << << "i", "n", "t", "e", "n", "s", "e" >>, 8 >>,
          << << "e", "x", "t", "r", "e", "m", "e" >>, 10 >>,
          << << "w", "o", "r", "s", "t" >>, 10 >>,
          << << "s", "e", "r", "i", "o", "u", "s" >>, 9 >>,
          << << "v", "e", "r", "y", " ", "m", "i", "l", "d" >>, 2 >>,
          << << "v", "e", "r", "y", " ", "s", "e", "v", "e", "r", "e" >>, 9 >> }
      word == LowerStr(value.s)
      mapped == IF value.t = "str"
                THEN Py("int", IF \E e \in severity_map : e[1] = word
                               THEN (CHOOSE e \in severity_map : e[1] = word)[2] ELSE 5, << >>)
                ELSE value
      raised == CASE mapped.t \in {"int", "bool"} -> ""
                  [] mapped.t = "float" /\ mapped.s = << >> -> ""
                  [] mapped.t = "float" /\ mapped.s = << "nan" >> -> "ValueError"
                  [] mapped.t = "float" /\ mapped.s = << "inf" >> -> "OverflowError"
                  [] OTHER -> "TypeError"
      n == IF mapped.t = "float"
           THEN (IF mapped.n >= 0 THEN mapped.n \div 10 ELSE 0 - ((0 - mapped.n) \div 10))
           ELSE mapped.n
  IN  IF raised = "" THEN [raised |-> "", severity |-> Py("int", n, << >>)]
      ELSE IF raised \in {"ValueError", "TypeError"}
           THEN [raised |-> "", severity |-> Py("int", 5, << >>)]
           ELSE [raised |-> raised, severity |-> Py("NoneType", 0, << >>)]

(* _log_symptom, lines 161-179: the severity stored for the one supplied.  *)
(* A string is looked up in severity_map; int() is applied to what is then *)
(* held; ValueError and TypeError give 5, another exception is not caught  *)
Severity(value) ==
  LET severity_map ==
        { << << "m", "i", "l", "d" >>, 3 >>,
          << << "l", "i", "g", "h", "t" >>, 3 >>,
          << << "m", "i", "n", "o", "r" >>, 2 >>,
          << << "m", "i", "n", "i", "m", "a", "l" >>, 1 >>,
          << << "s", "l", "i", "g", "h", "t" >>, 2 >>,
          << << "m", "o", "d", "e", "r", "a", "t", "e" >>, 5 >>,
          << << "m", "e", "d", "i", "u", "m" >>, 5 >>,
          << << "a", "v", "e", "r", "a", "g", "e" >>, 5 >>,
          << << "s", "e", "v", "e", "r", "e" >>, 8 >>,
          << << "i", "n", "t", "e", "n", "s", "e" >>, 8 >>,
          << << "e", "x", "t", "r", "e", "m", "e" >>, 10 >>,
          << << "w", "o", "r", "s", "t" >>, 10 >>,
          << << "s", "e", "r", "i", "o", "u", "s" >>, 9 >>,
          << << "v", "e", "r", "y", " ", "m", "i", "l", "d" >>, 2 >>,
          << << "v", "e", "r", "y", " ", "s", "e", "v", "e", "r", "e" >>, 9 >> }
      word == LowerStr(value.s)
      mapped == IF value.t = "str"
                THEN Py("int", IF \E e \in severity_map : e[1] = word
                               THEN (CHOOSE e \in severity_map : e[1] = word)[2] ELSE 5, << >>)
                ELSE value
      raised == CASE mapped.t \in {"int", "bool"} -> ""
                  [] mapped.t = "float" /\ mapped.s = << >> -> ""
                  [] mapped.t = "float" /\ mapped.s = << "nan" >> -> "ValueError"
                  [] mapped.t = "float" /\ mapped.s = << "inf" >> -> "OverflowError"
                  [] OTHER -> "TypeError"
      n == IF mapped.t = "float"
           THEN (IF mapped.n >= 0 THEN mapped.n \div 10 ELSE 0 - ((0 - mapped.n) \div 10))
           ELSE mapped.n
  IN  IF raised = "" THEN [raised |-> "", severity |-> Py("int", IF n < 1 THEN 1 ELSE IF n > 10 THEN 10 ELSE n, << >>)]
      ELSE IF raised \in {"ValueError", "TypeError"}
           THEN [raised |-> "", severity |-> Py("int", 5, << >>)]
           ELSE [raised |-> raised, severity |-> Py("NoneType", 0, << >>)]

(* SymptomTool.run(prompt) on the table rows.  kind tells how it is        *)
(* called: with the dictionary data ("dict"); with a text of which the     *)
(* language model makes the dictionary data ("text"), a JSON array         *)
(* ("text_list") or no JSON ("text_invalid"), _process_text_prompt; with a *)
(* value that is neither a text nor a dictionary ("other").  The result is *)
(* the table afterwards, the text returned and the exception raised.       *)
SymptomRun(kind, data, rows) ==
  LET action == DictGet(data, "action", Py("str", 0, << >>))
      patient == DictGet(data, "patient_id", Py("str", 0, << "default" >>))
      none == \A i \in 1..Len(rows) : rows[i].patient_id # patient
      answer(format, args) == [rows |-> rows, raised |-> "", reply |-> [format |-> format, args |-> args]]
      required == << "patient_id", "symptom", "severity" >>
      stored == Severity(data["severity"])
      row == [id |-> Len(rows) + 1, patient_id |-> data["patient_id"], symptom |-> data["symptom"],
              severity |-> stored.severity,
              description |-> DictGet(data, "description", Py("str", 0, << >>)),
              date_recorded |-> DictGet(data, "date_recorded", Py("str", 0, << "now" >>)),
              duration |-> DictGet(data, "duration", Py("str", 0, << >>)),
              triggers |-> DictGet(data, "triggers", Py("str", 0, << >>)),
              created_at |-> Py("str", 0, << "now" >>)]
      severity_desc == << "very mild", "mild", "mild to moderate", "moderate", "moderate",
                          "moderate to severe", "severe", "severe", "very severe", "extreme" >>
      log_symptom ==
        IF \E i \in 1..3 : required[i] \notin DOMAIN data
        THEN answer("Missing required field: {}",
                    << Py("str", 0, << required[CHOOSE i \in 1..3 :
                                                  /\ required[i] \notin DOMAIN data
                                                  /\ \A j \in 1..(i - 1) : required[j] \in DOMAIN data] >>) >>)
        ELSE IF stored.raised # ""
        THEN [rows |-> rows, raised |-> stored.raised, reply |-> [format |-> "", args |-> << >>]]
        ELSE IF StatementFails([k \in (DOMAIN row) \ {"id"} |-> row[k]],
                               {"patient_id", "symptom", "severity", "date_recorded", "created_at"})
        THEN answer("Error logging symptom: {}", << >>)
        ELSE [rows |-> Append(rows, row), raised |-> "",
              reply |-> [format |-> "Logged {} {} symptom.",
                         args |-> << Py("str", 0, << IF stored.severity.n \in 1..10
                                                      THEN severity_desc[stored.severity.n]
                                                      ELSE "" >>),
                                     data["symptom"] >>]]
  IN  CASE kind = "text_invalid" -> answer("I couldn't parse your symptom request.", << >>)
        [] kind \in {"text_list", "other"} -> answer("Invalid input format.", << >>)
        [] OTHER ->
             IF action.t # "str"
             THEN [rows |-> rows, raised |-> "AttributeError", reply |-> [format |-> "", args |-> << >>]]
             ELSE CASE LowerStr(action.s) = << "l", "o", "g" >> -> log_symptom
                    [] LowerStr(action.s) = << "l", "i", "s", "t" >> ->
                         IF none THEN answer("No symptoms recorded for patient ID: {}", << patient >>)
                         ELSE answer("Recent symptoms for patient {}:", << patient >>)
                    [] LowerStr(action.s) = << "a", "n", "a", "l", "y", "z", "e" >> ->
                         IF none
                         THEN answer("No symptoms recorded for patient ID: {}. Unable to perform analysis.",
                                     << patient >>)
                         ELSE answer("Symptom Analysis for patient {}:", << patient >>)
                    [] OTHER ->
                         answer("Unknown action: {}. Supported actions are: log, list, analyze.",
                                << Py("str", 0, LowerStr(action.s)) >>)

(* ---------------------------------------------------------------------- *)
(* MedicationTool (tools/medication.py)                                    *)
(* ---------------------------------------------------------------------- *)
(* _log_medication_taken that inserts the row before it looks the          *)
(* medication up: the early return then leaves the `with` block normally,  *)
(* which commits                                                           *)
LogMedicationTaken_InsertsFirst(data, db) ==
  LET missing == IF "medication_id" \notin DOMAIN data THEN "medication_id"
                 ELSE IF "taken" \notin DOMAIN data THEN "taken" ELSE ""
      truthy(v) == CASE v.t = "str" -> v.s # << >>
                     [] v.t \in {"int", "bool", "list"} -> v.n # 0
                     [] v.t = "float" -> v.n # 0 \/ v.s # << >>
                     [] OTHER -> FALSE
      row == [id |-> Len(db.medication_logs) + 1,
              medication_id |-> data["medication_id"],
              taken_at |-> DictGet(data, "taken_at", Py("str", 0, << "now" >>)),
              taken |-> Py("bool", IF truthy(data["taken"]) THEN 1 ELSE 0, << >>),
              notes |-> DictGet(data, "notes", Py("str", 0, << >>))]
      values == [k \in {"medication_id", "taken_at", "taken", "notes"} |-> row[k]]
      exists == \E i \in 1..Len(db.medications) :
                  \/ data["medication_id"].t \in {"int", "bool"}
                       /\ data["medication_id"].n = db.medications[i].id
                  \/ data["medication_id"].t = "float" /\ data["medication_id"].s = << >>
                       /\ data["medication_id"].n = 10 * db.medications[i].id
      inserted == [db EXCEPT !.medication_logs = Append(@, row)]
      not_found == [format |-> "Medication with ID {} not found", args |-> << data["medication_id"] >>]
      logged == [format |-> "Logged medication ID {} as {}",
                 args |-> << data["medication_id"],
                             Py("str", 0, << IF truthy(data["taken"]) THEN "taken" ELSE "skipped" >>) >>]
      failed == [format |-> "Error logging medication: {}", args |-> << >>]
  IN  IF missing # ""
      THEN [db |-> db, raised |-> "",
            reply |-> [format |-> "Missing required field: {}", args |-> << Py("str", 0, << missing >>) >>]]
      ELSE IF StatementFails(values, {"medication_id", "taken_at"})
      THEN [db |-> db, raised |-> "", reply |-> failed]
      ELSE IF ~exists
      THEN [db |-> inserted, raised |-> "", reply |-> not_found]
      ELSE [db |-> inserted, raised |-> "", reply |-> logged]

(* _log_medication_taken(data) on the tables db *)
LogMedicationTaken(data, db) ==
  LET missing == IF "medication_id" \notin DOMAIN data THEN "medication_id"
                 ELSE IF "taken" \notin DOMAIN data THEN "taken" ELSE ""
      truthy(v) == CASE v.t = "str" -> v.s # << >>
                     [] v.t \in {"int", "bool", "list"} -> v.n # 0
                     [] v.t = "float" -> v.n # 0 \/ v.s # << >>
                     [] OTHER -> FALSE
      row == [id |-> Len(db.medication_logs) + 1,
              medication_id |-> data["medication_id"],
              taken_at |-> DictGet(data, "taken_at", Py("str", 0, << "now" >>)),
              taken |-> Py("bool", IF truthy(data["taken"]) THEN 1 ELSE 0, << >>),
              notes |-> DictGet(data, "notes", Py("str", 0, << >>))]
      values == [k \in {"medication_id", "taken_at", "taken", "notes"} |-> row[k]]
      exists == \E i \in 1..Len(db.medications) :
                  \/ data["medication_id"].t \in {"int", "bool"}
                       /\ data["medication_id"].n = db.medications[i].id
                  \/ data["medication_id"].t = "float" /\ data["medication_id"].s = << >>
                       /\ data["medication_id"].n = 10 * db.medications[i].id
      inserted == [db EXCEPT !.medication_logs = Append(@, row)]
      not_found == [format |-> "Medication with ID {} not found", args |-> << data["medication_id"] >>]
      logged == [format |-> "Logged medication ID {} as {}",
                 args |-> << data["medication_id"],
                             Py("str", 0, << IF truthy(data["taken"]) THEN "taken" ELSE "skipped" >>) >>]
      failed == [format |-> "Error logging medication: {}", args |-> << >>]
  IN  IF missing # ""
      THEN [db |-> db, raised |-> "",
            reply |-> [format |-> "Missing required field: {}", args |-> << Py("str", 0, << missing >>) >>]]
      ELSE IF StatementFails([k \in {"medication_id"} |-> data[k]], {})
      THEN [db |-> db, raised |-> "", reply |-> failed]
      ELSE IF ~exists
      THEN [db |-> db, raised |-> "", reply |-> not_found]
      ELSE IF StatementFails(values, {"medication_id", "taken_at"})
      THEN [db |-> db, raised |-> "", reply |-> failed]
      ELSE [db |-> inserted, raised |-> "", reply |-> logged]

(* MedicationTool.run(prompt) on the tables db; kind as for SymptomRun *)
MedicationRun(kind, data, db) ==
  LET action == DictGet(data, "action", Py("str", 0, << >>))
      patient == DictGet(data, "patient_id", Py("str", 0, << "default" >>))
      none == \A i \in 1..Len(db.medications) : db.medications[i].patient_id # patient
      answer(format, args) == [db |-> db, raised |-> "", reply |-> [format |-> format, args |-> args]]
      required == << "patient_id", "name", "dosage", "frequency" >>
      new == [id |-> Len(db.medications) + 1,
              patient_id |-> DictGet(data, "patient_id", Py("str", 0, << "default" >>)),
              name |-> data["name"], dosage |-> data["dosage"], frequency |-> data["frequency"],
              time_of_day |-> DictGet(data, "time_of_day", Py("str", 0, << >>)),
              notes |-> DictGet(data, "notes", Py("str", 0, << >>)),
              start_date |-> DictGet(data, "start_date", Py("str", 0, << "now" >>)),
              end_date |-> DictGet(data, "end_date", Py("str", 0, << >>)),
              created_at |-> Py("str", 0, << "now" >>), updated_at |-> Py("str", 0, << "now" >>)]
      add_medication ==
        IF \E i \in 1..4 : required[i] \notin DOMAIN data
        THEN answer("Missing required field: {}",
                    << Py("str", 0, << required[CHOOSE i \in 1..4 :
                                                  /\ required[i] \notin DOMAIN data
                                                  /\ \A j \in 1..(i - 1) : required[j] \in DOMAIN data] >>) >>)
        ELSE IF StatementFails([k \in (DOMAIN new) \ {"id"} |-> new[k]],
                               {"patient_id", "name", "dosage", "frequency", "created_at", "updated_at"})
        THEN answer("Error adding medication: {}", << >>)
        ELSE [db |-> [db EXCEPT !.medications = Append(@, new)], raised |-> "",
              reply |-> [format |-> "Added medication: {} ({}) to be taken {}. Medication ID: {}",
                         args |-> << data["name"], data["dosage"], data["frequency"],
                                     Py("int", new.id, << >>) >>]]
      field_mapping == {"name", "dosage", "frequency", "time_of_day", "notes", "start_date", "end_date"}
      set == [k \in field_mapping \cap DOMAIN data |-> data[k]]
      is(id) == \/ data["id"].t \in {"int", "bool"} /\ data["id"].n = id
                \/ data["id"].t = "float" /\ data["id"].s = << >> /\ data["id"].n = 10 * id
      updated(row) ==
        [k \in DOMAIN row |->
           IF k \in DOMAIN set THEN set[k] ELSE IF k = "updated_at" THEN Py("str", 0, << "now" >>) ELSE row[k]]
      update_medication ==
        IF "id" \notin DOMAIN data
        THEN answer("Missing medication ID for update", << >>)
        ELSE IF StatementFails([k \in {"id"} |-> data[k]], {})
        THEN answer("Error updating medication: {}", << >>)
        ELSE IF \A i \in 1..Len(db.medications) : ~is(db.medications[i].id)
        THEN answer("Medication with ID {} not found", << data["id"] >>)
        ELSE IF StatementFails(set, {"name", "dosage", "frequency"})
        THEN answer("Error updating medication: {}", << >>)
        ELSE [db |-> [db EXCEPT !.medications =
                        [i \in 1..Len(@) |-> IF is(@[i].id) THEN updated(@[i]) ELSE @[i]]],
              raised |-> "",
              reply |-> [format |-> "Updated medication ID {}", args |-> << data["id"] >>]]
  IN  CASE kind = "text_invalid" -> answer("I couldn't parse your medication request.", << >>)
        [] kind \in {"text_list", "other"} -> answer("Invalid input format.", << >>)
        [] OTHER ->
             IF action.t # "str"
             THEN [db |-> db, raised |-> "AttributeError", reply |-> [format |-> "", args |-> << >>]]
             ELSE CASE LowerStr(action.s) = << "a", "d", "d" >> -> add_medication
                    [] LowerStr(action.s) = << "l", "i", "s", "t" >> ->
                         IF none THEN answer("No medications found for patient ID: {}", << patient >>)
                         ELSE answer("Medications for patient {}:", << patient >>)
                    [] LowerStr(action.s) = << "u", "p", "d", "a", "t", "e" >> -> update_medication
                    [] LowerStr(action.s) = << "l", "o", "g" >> -> LogMedicationTaken(data, db)
                    [] LowerStr(action.s) = << "a", "d", "h", "e", "r", "e", "n", "c", "e" >> ->
                         IF none THEN answer("No medications found for patient ID: {}", << patient >>)
                         ELSE answer("Medication Adherence Report for patient {}:", << patient >>)
                    [] OTHER ->
                         answer("Unknown action: {}. Supported actions are: add, list, update, log, adherence.",
                                << Py("str", 0, LowerStr(action.s)) >>)

(* ---------------------------------------------------------------------- *)
(* MedicalInfoTool (tools/medical_info.py)                                 *)
(* ---------------------------------------------------------------------- *)
(* _is_sensitive_query comparing the prompt as it was typed *)
IsSensitiveQuery_CaseSensitive(prompt) ==
  LET sensitive_keywords ==
        << << "d", "i", "a", "g", "n", "o", "s", "e" >>,
         << "d", "i", "a", "g", "n", "o", "s", "i", "s" >>,
         << "c", "a", "n", "c", "e", "r" >>,
         << "t", "e", "r", "m", "i", "n", "a", "l" >>,
         << "f", "a", "t", "a", "l" >>,
         << "e", "m", "e", "r", "g", "e", "n", "c", "y" >>,
         << "l", "i", "f", "e", "-", "t", "h", "r", "e", "a", "t", "e", "n", "i", "n", "g" >>,
         << "c", "r", "i", "t", "i", "c", "a", "l" >>,
         << "u", "r", "g", "e", "n", "t", " ", "m", "e", "d", "i", "c", "a", "l" >>,
         << "s", "u", "i", "c", "i", "d", "e" >>,
         << "s", "e", "l", "f", "-", "h", "a", "r", "m" >> >>
      prompt_lower == prompt
  IN  \E i \in 1..Len(sensitive_keywords) :
        \E at \in 1..(Len(prompt_lower) - Len(sensitive_keywords[i]) + 1) :
          SubSeq(prompt_lower, at, at + Len(sensitive_keywords[i]) - 1) = sensitive_keywords[i]

(* _is_sensitive_query(prompt) *)
IsSensitiveQuery(prompt) ==
  LET sensitive_keywords ==
        << << "d", "i", "a", "g", "n", "o", "s", "e" >>,
         << "d", "i", "a", "g", "n", "o", "s", "i", "s" >>,
         << "c", "a", "n", "c", "e", "r" >>,
         << "t", "e", "r", "m", "i", "n", "a", "l" >>,
         << "f", "a", "t", "a", "l" >>,
         << "e", "m", "e", "r", "g", "e", "n", "c", "y" >>,
         << "l", "i", "f", "e", "-", "t", "h", "r", "e", "a", "t", "e", "n", "i", "n", "g" >>,
         << "c", "r", "i", "t", "i", "c", "a", "l" >>,
         << "u", "r", "g", "e", "n", "t", " ", "m", "e", "d", "i", "c", "a", "l" >>,
         << "s", "u", "i", "c", "i", "d", "e" >>,
         << "s", "e", "l", "f", "-", "h", "a", "r", "m" >> >>
      prompt_lower == LowerStr(prompt)
  IN  \E i \in 1..Len(sensitive_keywords) :
        \E at \in 1..(Len(prompt_lower) - Len(sensitive_keywords[i]) + 1) :
          SubSeq(prompt_lower, at, at + Len(sensitive_keywords[i]) - 1) = sensitive_keywords[i]

(* MedicalInfoTool.run(prompt) with the API key `key`, when the search API *)
(* answers with http and the language model with llm: the text returned,   *)
(* the queries posted to the search API, the system prompts the language   *)
(* model was asked with and what get_llm_response returned                 *)
MedicalInfoRun(prompt, key, http, llm) ==
  LET llm_response ==
        IF llm.ok THEN llm.text ELSE << "Error: Unable to get AI response. " >> \o llm.text
      sensitive_response ==
        [reply |-> << "[warning sign] This appears to be a sensitive medical question. While I can provide general information, I'm not qualified to provide medical diagnoses or emergency advice.\n\n" >>
                     \o llm_response
                     \o << "\n\n", "Please consult with a qualified healthcare professional for proper medical guidance." >>,
         posted |-> << >>, asked |-> << "sensitive" >>, llm_response |-> llm_response, raised |-> ""]
      llm_medical_info(posted) ==
        [reply |-> llm_response
                     \o << "\n\n*Note: This information is general in nature and should not replace professional medical advice. Always consult with qualified healthcare providers for personal medical concerns.*" >>,
         posted |-> posted, asked |-> << "information" >>, llm_response |-> llm_response, raised |-> ""]
      ares_response ==
        IF http = "predictions"
        THEN [reply |-> << "Here's what I found using the Traversaal medical AI:\n\n", "prediction", "\n\n",
                           "Note: This information is for informational purposes and not a substitute for professional medical advice." >>,
              posted |-> << prompt.s >>, asked |-> << >>, llm_response |-> << >>, raised |-> ""]
        ELSE llm_medical_info(<< prompt.s >>)
  IN  IF prompt.t # "str"
      THEN [reply |-> << >>, posted |-> << >>, asked |-> << >>, llm_response |-> << >>,
            raised |-> "AttributeError"]
      ELSE IF IsSensitiveQuery(prompt.s) THEN sensitive_response
      ELSE IF key.t = "str" /\ key.s # << >> THEN ares_response
      ELSE llm_medical_info(<< >>)

(* health_prompt.format(tools=..., tool_names=", ".join(names)), lines     *)
(* 80-82: the prompt text with the names of the given tools                *)
HealthPrompt(names) ==
  SYSTEM_PROMPT \o Join([i \in 1..Len(names) |-> << NormalizeName(names[i]) >>], ", ")

(* a HealthGuardAgent right after __init__ *)
FreshAgent(names) ==
  [messages |-> << Message("system", HealthPrompt(names)) >>,
   pc |-> "idle",
   response |-> << >>,
   result |-> NoResult,
   calls |-> 0,
   turns |-> 0]

NotParsed == [done |-> FALSE]

(* The state after HealthGuardAgent(tools=...) for one of the tool lists *)
AgentInit(lists) ==
  /\ given \in lists
  /\ tools = DictKeys(FormatTools(given))
  /\ history = << >>
  /\ chat_history = << Message("assistant", WELCOME) >>
  /\ saved = << >>
  /\ patient_id = DEFAULT_PATIENT
  /\ files = [k \in FileKeys |-> NoFile]
  /\ agent = "HealthGuardAgent"
  /\ agent_initialized = TRUE
  /\ peer = FreshAgent(given)
  /\ messages = FreshAgent(given).messages
  /\ pc = "idle"
  /\ response = << >>
  /\ result = NoResult
  /\ sent = << >>
  /\ runs = << >>
  /\ round = 0
  /\ calls = 0
  /\ turns = 0
  /\ medications = SampleData.medications
  /\ medication_logs = SampleData.medication_logs
  /\ symptoms = SampleData.symptoms
  /\ med_call = [kind |-> "none", data |-> [k \in {} |-> 0],
                 reply |-> [format |-> "", args |-> << >>], raised |-> ""]
  /\ symptom_call = [kind |-> "none", data |-> [k \in {} |-> 0],
                     reply |-> [format |-> "", args |-> << >>], raised |-> ""]
  /\ ares_requests = << >>
  /\ llm_requests = << >>

InitWith(lists) ==
  /\ AgentInit(lists)
  /\ parse_text = << >> /\ parse_result = NotParsed
  /\ ares_api_key = Py("NoneType", 0, << >>)
  /\ info_call = [status |-> "idle", prompt |-> Py("str", 0, << >>), reply |-> << >>,
                  llm_response |-> << >>, raised |-> ""]

Init == InitWith(ToolLists)

(* process_user_message (app.py), before the agent is called: the typed    *)
(* message joins the displayed history                                     *)
AppOnMessage(prompt) ==
  /\ chat_history' = Append(chat_history, Message("user", prompt))
  /\ saved' = saved
  /\ files' = files

(* process_user_message (app.py), after the agent returned: the response    *)
(* joins the displayed history, which save_chat_history writes to the file *)
AppOnResponse(text) ==
  /\ chat_history' = Append(chat_history, Message("assistant", text))
  /\ saved' = chat_history'
  /\ files' = SaveChatHistory(chat_history', patient_id, files)

(* __call__, line 162: the patient turn is appended, the loop is entered *)
Call(prompt) ==
  /\ pc = "idle"
  /\ turns < MaxTurns
  /\ AppOnMessage(prompt)
  /\ messages' = Append(messages, Message("user", PatientMessage(prompt)))
  /\ pc' = "awaiting"
  /\ result' = NoResult
  /\ round' = 0
  /\ turns' = turns + 1
  /\ UNCHANGED << medications, medication_logs, med_call, symptoms, symptom_call,
                  ares_api_key, info_call, ares_requests, llm_requests,
                  given, agent, agent_initialized, parse_text, parse_result, patient_id, history, peer, tools, response, sent, runs, calls >>

(* self.tools[action.strip().lower()].run(action_input): the invocation   *)
(* of run() with its argument, the provider call whose completion asked    *)
(* for it, and whether run() raised.                                       *)
Run(parsed, call, raised) ==
  [tool |-> Lower(Strip(parsed.action.name))[1],
   arg |-> parsed.action_input,
   call |-> call,
   raised |-> raised]

(* The state after the loop body has examined a completion, lines 174-185: *)
(* the next position and the returned value.                               *)
AfterCompletion(completion) ==
  LET b == Branch(completion) IN
  [pc |-> IF b = "final" THEN "idle" ELSE IF b = "tool" THEN "tool" ELSE "awaiting",
   result |-> IF b = "final"
              THEN [kind |-> "final", text |-> FinalResponse(completion)]
              ELSE NoResult]

(* ProviderReturns that inserts the completion before the newest message *)
ProviderReturns_InsertsBeforeLast(completion) ==
  /\ pc = "awaiting"
  /\ calls < MaxCalls
  /\ sent' = messages
  /\ calls' = calls + 1
  /\ round' = round + 1
  /\ response' = completion
  /\ messages' = SubSeq(messages, 1, Len(messages) - 1)
                   \o << Message("assistant", completion), messages[Len(messages)] >>
  /\ pc' = AfterCompletion(completion).pc
  /\ result' = AfterCompletion(completion).result
  /\ IF AfterCompletion(completion).pc = "idle"
     THEN AppOnResponse(AfterCompletion(completion).result.text)
     ELSE UNCHANGED << chat_history, saved, files >>
  /\ UNCHANGED << medications, medication_logs, med_call, symptoms, symptom_call,
                  ares_api_key, info_call, ares_requests, llm_requests,
                  given, agent, agent_initialized, parse_text, parse_result, patient_id, history, peer, tools, runs, turns >>

(* The provider call returns a completion, lines 168-182 *)
ProviderReturns(completion) ==
  /\ pc = "awaiting"
  /\ calls < MaxCalls
  /\ sent' = messages
  /\ calls' = calls + 1
  /\ round' = round + 1
  /\ response' = completion
  /\ messages' = Append(messages, Message("assistant", completion))
  /\ pc' = AfterCompletion(completion).pc
  /\ result' = AfterCompletion(completion).result
  /\ IF AfterCompletion(completion).pc = "idle"
     THEN AppOnResponse(AfterCompletion(completion).result.text)
     ELSE UNCHANGED << chat_history, saved, files >>
  /\ UNCHANGED << medications, medication_logs, med_call, symptoms, symptom_call,
                  ares_api_key, info_call, ares_requests, llm_requests,
                  given, agent, agent_initialized, parse_text, parse_result, patient_id, history, peer, tools, runs, turns >>

(* ProviderRaises that records the failed attempt as an Assistant message *)
ProviderRaises_AppendsFailure(e) ==
  /\ pc = "awaiting"
  /\ calls < MaxCalls
  /\ sent' = messages
  /\ calls' = calls + 1
  /\ pc' = "idle"
  /\ result' = OnException(e)
  /\ AppOnResponse(OnException(e).text)
  /\ messages' = Append(messages, Message("assistant", << e >>))
  /\ UNCHANGED << medications, medication_logs, med_call, symptoms, symptom_call,
                  ares_api_key, info_call, ares_requests, llm_requests,
                  given, agent, agent_initialized, parse_text, parse_result, patient_id, history, peer, tools, response, runs, round, turns >>

(* ProviderRaises that undoes the tool invocations of the failed turn *)
ProviderRaises_RollsBack(e) ==
  /\ pc = "awaiting"
  /\ calls < MaxCalls
  /\ sent' = messages
  /\ calls' = calls + 1
  /\ pc' = "idle"
  /\ result' = OnException(e)
  /\ AppOnResponse(OnException(e).text)
  /\ runs' = SelectSeq(runs, LAMBDA r : r.call <= calls - round)
  /\ UNCHANGED << medications, medication_logs, med_call, symptoms, symptom_call,
                  ares_api_key, info_call, ares_requests, llm_requests,
                  given, agent, agent_initialized, parse_text, parse_result, patient_id, history, peer, tools, messages, response, round, turns >>

(* The provider call raises, lines 187-189 *)
ProviderRaises(e) ==
  /\ pc = "awaiting"
  /\ calls < MaxCalls
  /\ sent' = messages
  /\ calls' = calls + 1
  /\ pc' = "idle"
  /\ result' = OnException(e)
  /\ AppOnResponse(OnException(e).text)
  /\ UNCHANGED << medications, medication_logs, med_call, symptoms, symptom_call,
                  ares_api_key, info_call, ares_requests, llm_requests,
                  given, agent, agent_initialized, parse_text, parse_result, patient_id, history, peer, tools, messages, response, runs, round, turns >>

(* ToolReturns that invokes the tool a second time for the same completion *)
ToolReturns_RunsTwice(tool_observation) ==
  /\ pc = "tool"
  /\ LET parsed == ParseActionString(response) IN
     /\ ToolFound(parsed.action, tools)
     /\ runs' = runs \o << Run(parsed, calls, FALSE), Run(parsed, calls, FALSE) >>
     /\ messages' = Append(messages,
                           Message("user", ToolResultObservation(tool_observation)))
  /\ pc' = "awaiting"
  /\ UNCHANGED << medications, medication_logs, med_call, symptoms, symptom_call,
                  ares_api_key, info_call, ares_requests, llm_requests,
                  chat_history, saved, files, given, agent, agent_initialized, parse_text, parse_result, patient_id, history, peer, tools, response, result, sent, round, calls, turns >>

(* _tool_call, lines 141-145, and line 185: the tool runs and returns *)
ToolReturns(tool_observation) ==
  /\ pc = "tool"
  /\ LET parsed == ParseActionString(response) IN
     /\ ToolFound(parsed.action, tools)
     /\ runs' = Append(runs, Run(parsed, calls, FALSE))
     /\ messages' = Append(messages,
                           Message("user", ToolResultObservation(tool_observation)))
  /\ pc' = "awaiting"
  /\ UNCHANGED << medications, medication_logs, med_call, symptoms, symptom_call,
                  ares_api_key, info_call, ares_requests, llm_requests,
                  chat_history, saved, files, given, agent, agent_initialized, parse_text, parse_result, patient_id, history, peer, tools, response, result, sent, round, calls, turns >>

(* ToolRaises without the try/except of _tool_call: the exception reaches *)
(* the handler of __call__, which ends the turn with the apology          *)
ToolRaises_Propagates(e) ==
  /\ pc = "tool"
  /\ LET parsed == ParseActionString(response) IN
     /\ ToolFound(parsed.action, tools)
     /\ runs' = Append(runs, Run(parsed, calls, TRUE))
  /\ pc' = "idle"
  /\ result' = OnException(e)
  /\ AppOnResponse(OnException(e).text)
  /\ UNCHANGED << medications, medication_logs, med_call, symptoms, symptom_call,
                  ares_api_key, info_call, ares_requests, llm_requests,
                  given, agent, agent_initialized, parse_text, parse_result, patient_id, history, peer, tools, messages, response, sent, round, calls, turns >>

(* ToolRaises that swallows the failure: no Observation is appended *)
ToolRaises_Silent(e) ==
  /\ pc = "tool"
  /\ LET parsed == ParseActionString(response) IN
     /\ ToolFound(parsed.action, tools)
     /\ runs' = Append(runs, Run(parsed, calls, TRUE))
  /\ pc' = "awaiting"
  /\ UNCHANGED << medications, medication_logs, med_call, symptoms, symptom_call,
                  ares_api_key, info_call, ares_requests, llm_requests,
                  chat_history, saved, files, given, agent, agent_initialized, parse_text, parse_result, patient_id, history, peer, tools, messages, response, result, sent, round, calls, turns >>

(* ToolRaises that takes the failed tool out of the registry *)
ToolRaises_DropsTool(e) ==
  /\ pc = "tool"
  /\ LET parsed == ParseActionString(response) IN
     /\ ToolFound(parsed.action, tools)
     /\ runs' = Append(runs, Run(parsed, calls, TRUE))
     /\ messages' = Append(messages, Message("user", ToolErrorObservation(e)))
     /\ tools' = SelectSeq(tools, LAMBDA k : k # Lower(Strip(parsed.action.name))[1])
  /\ pc' = "awaiting"
  /\ UNCHANGED << medications, medication_logs, med_call, symptoms, symptom_call,
                  ares_api_key, info_call, ares_requests, llm_requests,
                  chat_history, saved, files, given, agent, agent_initialized, parse_text, parse_result, patient_id, history, peer, response, result, sent, round, calls, turns >>

(* _tool_call, lines 144 and 147-149, and line 185: the tool runs and raises *)
ToolRaises(e) ==
  /\ pc = "tool"
  /\ LET parsed == ParseActionString(response) IN
     /\ ToolFound(parsed.action, tools)
     /\ runs' = Append(runs, Run(parsed, calls, TRUE))
     /\ messages' = Append(messages, Message("user", ToolErrorObservation(e)))
  /\ pc' = "awaiting"
  /\ UNCHANGED << medications, medication_logs, med_call, symptoms, symptom_call,
                  ares_api_key, info_call, ares_requests, llm_requests,
                  chat_history, saved, files, given, agent, agent_initialized, parse_text, parse_result, patient_id, history, peer, tools, response, result, sent, round, calls, turns >>

(* ToolNotFound that puts the observation in the place of the last message *)
ToolNotFound_OverwritesLast ==
  /\ pc = "tool"
  /\ LET parsed == ParseActionString(response) IN
     /\ ~ToolFound(parsed.action, tools)
     /\ messages' = [messages EXCEPT ![Len(messages)] =
                       Message("user", ToolNotFoundObservation(parsed.action, tools))]
  /\ pc' = "awaiting"
  /\ UNCHANGED << medications, medication_logs, med_call, symptoms, symptom_call,
                  ares_api_key, info_call, ares_requests, llm_requests,
                  chat_history, saved, files, given, agent, agent_initialized, parse_text, parse_result, patient_id, history, peer, tools, response, result, sent, runs, round, calls, turns >>

(* ToolNotFound whose dispatch never comes back to the loop *)
ToolNotFound_Hangs ==
  /\ pc = "tool"
  /\ ~ToolFound(ParseActionString(response).action, tools)
  /\ pc' = "blocked"
  /\ UNCHANGED << medications, medication_logs, med_call, symptoms, symptom_call,
                  ares_api_key, info_call, ares_requests, llm_requests,
                  chat_history, saved, files, given, agent, agent_initialized, parse_text, parse_result, patient_id, history, peer, tools, messages, response, result, sent, runs, round, calls, turns >>

(* ToolNotFound that returns the not-found text to the caller *)
ToolNotFound_EndsTurn ==
  /\ pc = "tool"
  /\ LET parsed == ParseActionString(response) IN
     /\ ~ToolFound(parsed.action, tools)
     /\ messages' = Append(messages,
                           Message("user", ToolNotFoundObservation(parsed.action, tools)))
     /\ result' = [kind |-> "final", text |-> ToolNotFoundObservation(parsed.action, tools)]
  /\ pc' = "idle"
  /\ UNCHANGED << medications, medication_logs, med_call, symptoms, symptom_call,
                  ares_api_key, info_call, ares_requests, llm_requests,
                  chat_history, saved, files, given, agent, agent_initialized, parse_text, parse_result, patient_id, history, peer, tools, response, sent, runs, round, calls, turns >>

(* _tool_call, lines 143 and 146, and line 185: no tool of that name *)
ToolNotFound ==
  /\ pc = "tool"
  /\ LET parsed == ParseActionString(response) IN
     /\ ~ToolFound(parsed.action, tools)
     /\ messages' = Append(messages,
                           Message("user", ToolNotFoundObservation(parsed.action, tools)))
  /\ pc' = "awaiting"
  /\ UNCHANGED << medications, medication_logs, med_call, symptoms, symptom_call,
                  ares_api_key, info_call, ares_requests, llm_requests,
                  chat_history, saved, files, given, agent, agent_initialized, parse_text, parse_result, patient_id, history, peer, tools, response, result, sent, runs, round, calls, turns >>

(* ClearConversation that keeps the newest message: self.messages[-1] *)
ClearConversation_KeepsLast ==
  /\ pc = "idle"
  /\ messages' = << messages[Len(messages)] >>
  /\ result' = [kind |-> "cleared", text |-> CLEARED]
  /\ UNCHANGED << medications, medication_logs, med_call, symptoms, symptom_call,
                  ares_api_key, info_call, ares_requests, llm_requests,
                  chat_history, saved, files, given, agent, agent_initialized, parse_text, parse_result, patient_id, history, peer, tools, pc, response, sent, runs, round, calls, turns >>

(* ClearConversation that also resets the caller's persisted transcript *)
ClearConversation_WipesTranscript ==
  /\ pc = "idle"
  /\ messages' = << messages[1] >>
  /\ result' = [kind |-> "cleared", text |-> CLEARED]
  /\ saved' = << >>
  /\ UNCHANGED << medications, medication_logs, med_call, symptoms, symptom_call,
                  ares_api_key, info_call, ares_requests, llm_requests,
                  files, chat_history, given, agent, agent_initialized, parse_text, parse_result, patient_id, history, peer, tools, pc, response, sent, runs, round, calls, turns >>

(* clear_conversation, lines 238-242 *)
ClearConversation ==
  /\ pc = "idle"
  /\ messages' = << messages[1] >>
  /\ result' = [kind |-> "cleared", text |-> CLEARED]
  /\ UNCHANGED << medications, medication_logs, med_call, symptoms, symptom_call,
                  ares_api_key, info_call, ares_requests, llm_requests,
                  chat_history, saved, files, given, agent, agent_initialized, parse_text, parse_result, patient_id, history, peer, tools, pc, response, sent, runs, round, calls, turns >>

(* GetConversationHistory that hands out the conversation by removing it *)
GetConversationHistory_Drains ==
  /\ pc = "idle"
  /\ history' = messages
  /\ messages' = << messages[1] >>
  /\ UNCHANGED << medications, medication_logs, med_call, symptoms, symptom_call,
                  ares_api_key, info_call, ares_requests, llm_requests,
                  chat_history, saved, files, given, agent, agent_initialized, parse_text, parse_result, patient_id, peer, tools, pc, response, result, sent, runs, round, calls, turns >>

(* get_conversation_history, lines 234-236: the caller reads self.messages *)
GetConversationHistory ==
  /\ pc = "idle"
  /\ history' = messages
  /\ UNCHANGED << medications, medication_logs, med_call, symptoms, symptom_call,
                  ares_api_key, info_call, ares_requests, llm_requests,
                  chat_history, saved, files, given, agent, agent_initialized, parse_text, parse_result, patient_id, peer, tools, messages, pc, response, result, sent, runs, round, calls, turns >>

Next ==
  \/ \E prompt \in Prompts : Call(prompt)
  \/ \E completion \in Completions : ProviderReturns(completion)
  \/ \E e \in ProviderErrors : ProviderRaises(e)
  \/ \E out \in ToolOutputs : ToolReturns(out)
  \/ \E e \in ToolErrors : ToolRaises(e)
  \/ ToolNotFound
  \/ ClearConversation

Spec == Init /\ [][Next]_vars

(* ---------------------------------------------------------------------- *)
(* The agent with a caller that sends different patient messages and reads *)
(* the history between turns, and a provider that returns one completion   *)
(* of each branch of the loop                                              *)
(* ---------------------------------------------------------------------- *)
REFILL == "refill"

VariedPrompts == { << "hello" >>, << REFILL, SP, OTHER_WORD >> }

BranchCompletions == { FinalOnly, ToolRaw, ToolUnknown, PlainText }

NextPrompts ==
  \/ \E prompt \in VariedPrompts : Call(prompt)
  \/ \E completion \in BranchCompletions : ProviderReturns(completion)
  \/ \E e \in ProviderErrors : ProviderRaises(e)
  \/ \E out \in ToolOutputs : ToolReturns(out)
  \/ \E e \in ToolErrors : ToolRaises(e)
  \/ ToolNotFound
  \/ ClearConversation
  \/ GetConversationHistory

SpecPrompts == Init /\ [][NextPrompts]_vars

(* ---------------------------------------------------------------------- *)
(* The agent constructed from any tool list, also one in which two tools   *)
(* have the same normalized name                                           *)
(* ---------------------------------------------------------------------- *)
AnyToolLists ==
  ToolLists \cup { << "Medication Tool", "Symptom Tool", "medication tool" >> }

SpecRegistry == InitWith(AnyToolLists) /\ [][NextPrompts]_vars

(* ---------------------------------------------------------------------- *)
(* The agent with a provider that asks for tools by differently written    *)
(* names                                                                   *)
(* ---------------------------------------------------------------------- *)
ToolSpacedName ==
  << ACTION_MARK, SP, "Medication", SP, "Tool", NL, INPUT_MARK, SP, WORD >>
ToolShouted == << ACTION_MARK, "SYMPTOM_TOOL", NL, INPUT_MARK, SP, DIGIT >>

NameCompletions ==
  { ToolUpperCase, ToolShouted, ToolSpacedName, ToolRaw, ToolJson, ToolUnknown,
    ToolEmptyName, ToolMidLine, FinalOnly }

NextLookup ==
  \/ \E prompt \in Prompts : Call(prompt)
  \/ \E completion \in NameCompletions : ProviderReturns(completion)
  \/ \E e \in ProviderErrors : ProviderRaises(e)
  \/ \E out \in ToolOutputs : ToolReturns(out)
  \/ \E e \in ToolErrors : ToolRaises(e)
  \/ ToolNotFound
  \/ ClearConversation

SpecLookup == Init /\ [][NextLookup]_vars

(* ---------------------------------------------------------------------- *)
(* Two agent instances (two patient sessions, app.py initialize_agent).    *)
(* The second instance runs the same methods on its own fields, which are  *)
(* the fields of the record peer; the steps of the two interleave.         *)
(* ---------------------------------------------------------------------- *)
PeerPrompts == { << REFILL, SP, OTHER_WORD >> }

SessionCompletions == { FinalOnly, ToolRaw, ToolUnknown }

(* the provider calls and the turns of the two sessions together stay     *)
(* within the bounds                                                       *)
CallBudget == calls + peer.calls < MaxCalls
TurnBudget == turns + peer.turns < MaxTurns

MainUnchanged ==
  UNCHANGED << medications, medication_logs, med_call, symptoms, symptom_call,
               ares_api_key, info_call, ares_requests, llm_requests,
               given, agent, agent_initialized, parse_text, parse_result, patient_id, tools, messages, pc, response, result, sent, runs, round,
               calls, turns, history, chat_history, saved, files >>

(* PeerCall on a message list that the two instances share *)
PeerCall_SharedMessages(prompt) ==
  /\ peer.pc = "idle"
  /\ TurnBudget
  /\ peer' = [peer EXCEPT !.messages = Append(@, Message("user", PatientMessage(prompt))),
                          !.pc = "awaiting",
                          !.result = NoResult,
                          !.turns = @ + 1]
  /\ messages' = Append(messages, Message("user", PatientMessage(prompt)))
  /\ UNCHANGED << medications, medication_logs, med_call, symptoms, symptom_call,
                  ares_api_key, info_call, ares_requests, llm_requests,
                  given, agent, agent_initialized, parse_text, parse_result, patient_id, tools, pc, response, result, sent, runs, round,
                  calls, turns, history, chat_history, saved, files >>

(* __call__, line 162, of the second instance *)
PeerCall(prompt) ==
  /\ peer.pc = "idle"
  /\ TurnBudget
  /\ peer' = [peer EXCEPT !.messages = Append(@, Message("user", PatientMessage(prompt))),
                          !.pc = "awaiting",
                          !.result = NoResult,
                          !.turns = @ + 1]
  /\ MainUnchanged

(* lines 168-182 of the second instance *)
PeerProviderReturns(completion) ==
  /\ peer.pc = "awaiting"
  /\ CallBudget
  /\ peer' = [peer EXCEPT !.messages = Append(@, Message("assistant", completion)),
                          !.response = completion,
                          !.pc = AfterCompletion(completion).pc,
                          !.result = AfterCompletion(completion).result,
                          !.calls = @ + 1]
  /\ MainUnchanged

(* lines 187-189 of the second instance *)
PeerProviderRaises(e) ==
  /\ peer.pc = "awaiting"
  /\ CallBudget
  /\ peer' = [peer EXCEPT !.pc = "idle", !.result = OnException(e), !.calls = @ + 1]
  /\ MainUnchanged

(* _tool_call and line 185 of the second instance; outcome is what run()   *)
(* does when a tool is found: it returns a text or raises                  *)
PeerToolCall(outcome) ==
  /\ peer.pc = "tool"
  /\ LET parsed == ParseActionString(peer.response)
         observation ==
           IF ~ToolFound(parsed.action, tools)
           THEN ToolNotFoundObservation(parsed.action, tools)
           ELSE IF outcome.raised THEN ToolErrorObservation(outcome.e)
           ELSE ToolResultObservation(outcome.text)
     IN peer' = [peer EXCEPT !.messages = Append(@, Message("user", observation)),
                             !.pc = "awaiting"]
  /\ MainUnchanged

(* clear_conversation of the second instance *)
PeerClearConversation ==
  /\ peer.pc = "idle"
  /\ peer' = [peer EXCEPT !.messages = << @[1] >>,
                          !.result = [kind |-> "cleared", text |-> CLEARED]]
  /\ MainUnchanged

ToolOutcomes ==
  { [raised |-> FALSE, text |-> out, e |-> ""] : out \in ToolOutputs }
    \cup { [raised |-> TRUE, text |-> << >>, e |-> e] : e \in ToolErrors }

NextSessions ==
  \/ \E prompt \in Prompts : TurnBudget /\ Call(prompt)
  \/ \E completion \in SessionCompletions : CallBudget /\ ProviderReturns(completion)
  \/ \E e \in ProviderErrors : CallBudget /\ ProviderRaises(e)
  \/ \E out \in ToolOutputs : ToolReturns(out)
  \/ \E e \in ToolErrors : ToolRaises(e)
  \/ ToolNotFound
  \/ ClearConversation
  \/ \E prompt \in PeerPrompts : PeerCall(prompt)
  \/ \E completion \in SessionCompletions : PeerProviderReturns(completion)
  \/ \E e \in ProviderErrors : PeerProviderRaises(e)
  \/ \E outcome \in ToolOutcomes : PeerToolCall(outcome)
  \/ PeerClearConversation

SpecSessions == Init /\ [][NextSessions]_vars

(* ---------------------------------------------------------------------- *)
(* The application around the agent (app.py): the patient identifier, the  *)
(* displayed history and its file.                                         *)
(* ---------------------------------------------------------------------- *)
(* a final response with a quoted word, a line break and a backslash *)
FinalQuoted ==
  << RESPONSE_MARK, SP, JSTR, NL, BACKSLASH_N, SP, WORD >>

TranscriptCompletions == { FinalOnly, FinalQuoted, ToolUnknown, ToolRaw }

(* ChangePatient that keeps the agent of the previous patient *)
ChangePatient_KeepsAgent(id, ok) ==
  /\ pc = "idle"
  /\ id # patient_id
  /\ patient_id' = id
  /\ chat_history' = LoadChatHistory(id, files)
  /\ saved' = IF files[SafePatientId(id)].exists THEN chat_history' ELSE << >>
  /\ UNCHANGED << medications, medication_logs, med_call, symptoms, symptom_call,
                  ares_api_key, info_call, ares_requests, llm_requests,
                  given, agent, agent_initialized, parse_text, parse_result, tools, messages,
                  response, result, pc, sent, runs, round, calls, turns, history, files, peer >>

(* the patient-id input changed, lines 443-450, and the rerun's            *)
(* initialisation block, lines 516-528: initialize_agent returns a new     *)
(* agent and the history is loaded (ok), or it returns None and the script *)
(* stops                                                                   *)
ChangePatient(id, ok) ==
  /\ pc = "idle"
  /\ id # patient_id
  /\ patient_id' = id
  /\ agent' = IF ok THEN "HealthGuardAgent" ELSE "None"
  /\ agent_initialized' = ok
  /\ messages' = IF ok THEN FreshAgent(given).messages ELSE << >>
  /\ response' = << >>
  /\ result' = NoResult
  /\ chat_history' = IF ok THEN LoadChatHistory(id, files) ELSE << >>
  /\ saved' = IF ok /\ files[SafePatientId(id)].exists THEN chat_history' ELSE << >>
  /\ UNCHANGED << medications, medication_logs, med_call, symptoms, symptom_call,
                  ares_api_key, info_call, ares_requests, llm_requests,
                  given, parse_text, parse_result, tools, pc, sent, runs, round, calls, turns,
                  history, files, peer >>

(* a rerun while agent_initialized is false, lines 516-528, in which       *)
(* initialize_agent succeeds (a failed attempt changes nothing)            *)
RetryInit ==
  /\ ~agent_initialized
  /\ agent' = "HealthGuardAgent"
  /\ agent_initialized' = TRUE
  /\ messages' = FreshAgent(given).messages
  /\ chat_history' = LoadChatHistory(patient_id, files)
  /\ saved' = IF files[SafePatientId(patient_id)].exists THEN chat_history' ELSE << >>
  /\ UNCHANGED << medications, medication_logs, med_call, symptoms, symptom_call,
                  ares_api_key, info_call, ares_requests, llm_requests,
                  given, parse_text, parse_result, tools, pc, response, result, sent, runs,
                  round, calls, turns, history, patient_id, files, peer >>

(* ClearChat that also calls the agent's clear_conversation *)
ClearChat_ClearsAgent(ok) ==
  /\ pc = "idle"
  /\ agent_initialized
  /\ chat_history' = InitialWelcomeMessage
  /\ files' = SaveChatHistory(chat_history', patient_id, files)
  /\ saved' = chat_history'
  /\ messages' = << messages[1] >>
  /\ UNCHANGED << medications, medication_logs, med_call, symptoms, symptom_call,
                  ares_api_key, info_call, ares_requests, llm_requests,
                  given, agent, agent_initialized, parse_text, parse_result, tools, pc,
                  response, result, sent, runs, round, calls, turns, history, patient_id, peer >>

(* the button "Clear Current Chat History", lines 502-511, and, while      *)
(* agent_initialized is false, the initialisation block that the same run  *)
(* of the script reaches, lines 516-528                                    *)
ClearChat(ok) ==
  /\ pc = "idle"
  /\ files' = SaveChatHistory(InitialWelcomeMessage, patient_id, files)
  /\ saved' = InitialWelcomeMessage
  /\ IF agent_initialized
     THEN /\ chat_history' = InitialWelcomeMessage
          /\ UNCHANGED << agent, agent_initialized, messages >>
     ELSE /\ agent' = IF ok THEN "HealthGuardAgent" ELSE "None"
          /\ agent_initialized' = ok
          /\ messages' = IF ok THEN FreshAgent(given).messages ELSE << >>
          /\ chat_history' = IF ok THEN LoadChatHistory(patient_id, files')
                             ELSE InitialWelcomeMessage
  /\ UNCHANGED << medications, medication_logs, med_call, symptoms, symptom_call,
                  ares_api_key, info_call, ares_requests, llm_requests,
                  given, parse_text, parse_result, tools, pc, response, result, sent, runs,
                  round, calls, turns, history, patient_id, peer >>

NextTranscript ==
  \/ \E prompt \in Prompts : agent_initialized /\ agent # "None" /\ Call(prompt)
  \/ \E completion \in TranscriptCompletions : ProviderReturns(completion)
  \/ \E e \in ProviderErrors : ProviderRaises(e)
  \/ \E out \in ToolOutputs : ToolReturns(out)
  \/ \E e \in ToolErrors : ToolRaises(e)
  \/ ToolNotFound
  \/ \E id \in PatientIds : \E ok \in BOOLEAN : ChangePatient(id, ok)
  \/ RetryInit
  \/ \E ok \in BOOLEAN : ClearChat(ok)

SpecTranscript == Init /\ [][NextTranscript]_vars

(* ---------------------------------------------------------------------- *)
(* The agent with calls that complete: every provider call returns or      *)
(* fails, every dispatch comes back, and the provider ends the turn (a     *)
(* completion with 'Response:', or a failure) at the latest at its call    *)
(* number MaxCalls.                                                        *)
(* ---------------------------------------------------------------------- *)
(* a tool step whose 'Action Input:' is empty *)
ToolBare == << ACTION_MARK, SYM, NL, INPUT_MARK >>

(* one completion of each branch of the loop and of the dispatcher *)
LiveCompletions == { FinalEmpty, ActionOnly, ToolBare, ToolEmptyName }

ProviderStep ==
  \/ \E completion \in LiveCompletions :
       /\ Branch(completion) # "final" => calls < MaxCalls - 1
       /\ ProviderReturns(completion)
  \/ \E e \in ProviderErrors : ProviderRaises(e)

ToolStep ==
  \/ \E out \in ToolOutputs : ToolReturns(out)
  \/ \E e \in ToolErrors : ToolRaises(e)
  \/ ToolNotFound

NextLive ==
  \/ \E prompt \in Prompts : calls < MaxCalls - 1 /\ Call(prompt)
  \/ ProviderStep
  \/ ToolStep

SpecLive == Init /\ [][NextLive]_vars /\ WF_vars(ProviderStep) /\ WF_vars(ToolStep)

(* ---------------------------------------------------------------------- *)
(* _parse_action_string on its own: every text of at most MaxLen lexemes,  *)
(* and the completions above, is parsed.                                   *)
(* ---------------------------------------------------------------------- *)
ParserAlphabet ==
  { ACTION_MARK, INPUT_MARK, OBSERVATION_MARK, SP, NL, WORD, OTHER_WORD, DIGIT }

(* two lines beginning with 'Action:', the last with the marker once more *)
ActionRepeated ==
  << ACTION_MARK, SP, UNK, NL, ACTION_MARK, SP, WORD, SP, ACTION_MARK, SP, OTHER_WORD >>

ParserInputs ==
  UNION { [1..n -> ParserAlphabet] : n \in 0..MaxLen }
    \cup Completions \cup { ActionRepeated }

(* ParseText with json.loads outside try/except: a text that is not JSON   *)
(* makes the call raise                                                    *)
ParseText_DecodeRaises ==
  /\ ~parse_result.done
  /\ parse_result' =
       [done |-> TRUE,
        raised |-> ~JsonLoads(ParseActionString_NoDecode(parse_text).action_input.value).ok,
        value |-> ParseActionString(parse_text)]
  /\ UNCHANGED << medications, medication_logs, med_call, symptoms, symptom_call,
                  ares_api_key, info_call, ares_requests, llm_requests,
                  given, agent, agent_initialized, parse_text, tools, messages, pc, response, result, sent, runs, round,
                  calls, turns, history, chat_history, saved, patient_id, files, peer >>

(* _parse_action_string(text) returns; it has no raise and its only call   *)
(* that may fail, json.loads, is inside try/except                         *)
ParseText ==
  /\ ~parse_result.done
  /\ parse_result' = [done |-> TRUE, raised |-> FALSE, value |-> ParseActionString(parse_text)]
  /\ UNCHANGED << medications, medication_logs, med_call, symptoms, symptom_call,
                  ares_api_key, info_call, ares_requests, llm_requests,
                  given, agent, agent_initialized, parse_text, tools, messages, pc, response, result, sent, runs, round,
                  calls, turns, history, chat_history, saved, patient_id, files, peer >>

InitParser ==
  /\ AgentInit({ << "Medication Tool", "Symptom Tool" >> })
  /\ parse_text \in ParserInputs
  /\ parse_result = NotParsed
  /\ ares_api_key = Py("NoneType", 0, << >>)
  /\ info_call = [status |-> "idle", prompt |-> Py("str", 0, << >>), reply |-> << >>,
                  llm_response |-> << >>, raised |-> ""]

NextParser == ParseText

SpecParser == InitParser /\ [][NextParser]_vars

(* ---------------------------------------------------------------------- *)
(* The tools on their own                                                  *)
(* ---------------------------------------------------------------------- *)
(* MedicationTool.run is called and returns or raises *)
MedicationToolRun(kind, data) ==
  /\ kind \in {"dict", "text"} \/ data = [k \in {} |-> 0]
  /\ \E out \in { MedicationRun(kind, data, [medications |-> medications,
                                             medication_logs |-> medication_logs]) } :
       /\ Len(out.db.medications) <= Len(SampleData.medications) + MaxRows
       /\ Len(out.db.medication_logs) <= Len(SampleData.medication_logs) + MaxRows
       /\ medications' = out.db.medications
       /\ medication_logs' = out.db.medication_logs
       /\ med_call' = [kind |-> kind, data |-> data, reply |-> out.reply, raised |-> out.raised]
  /\ UNCHANGED << given, tools, messages, pc, response, result, sent, runs, round, calls,
                  turns, history, chat_history, saved, patient_id, files, agent,
                  agent_initialized, parse_text, parse_result, peer,
                  symptoms, symptom_call, ares_api_key, info_call, ares_requests, llm_requests >>

(* the calls of MedicationTool.run: requests with and without each field,  *)
(* for ids of sample rows (1), of the first added row (4) and of no row    *)
(* (9); texts of which the language model makes a dictionary or not        *)
NextMedication ==
  LET add == [action |-> Py("str", 0, << "a", "d", "d" >>), patient_id |-> Py("str", 0, << "demo_patient_001" >>), name |-> Py("str", 0, << "Aspirin" >>),
              dosage |-> Py("str", 0, << "100mg" >>), frequency |-> Py("str", 0, << "Once daily" >>)]
      update == Py("str", 0, << "u", "p", "d", "a", "t", "e" >>)
      log == Py("str", 0, << "l", "o", "g" >>)
      requests ==
        { [k \in (DOMAIN add) \ without |-> add[k]] :
            without \in { {}, {"patient_id"}, {"name"}, {"dosage"}, {"frequency"}, {"name", "frequency"} } }
          \cup { [add EXCEPT !.action = Py("str", 0, << "A", "D", "D" >>)], [add EXCEPT !.name = Py("NoneType", 0, << >>)] }
          \cup { [action |-> update], [action |-> update, dosage |-> Py("str", 0, << "20mg" >>)] }
          \cup { [action |-> update, id |-> id] : id \in { Py("int", 9, << >>), Py("list", 1, << >>) } }
          \cup { [action |-> update, id |-> Py("int", n, << >>), dosage |-> Py("str", 0, << "20mg" >>)] : n \in {1, 4, 9} }
          \cup { [action |-> update, id |-> Py("int", 1, << >>), dosage |-> Py("NoneType", 0, << >>)] }
          \cup { [action |-> log], [action |-> log, taken |-> Py("bool", 1, << >>)],
                 [action |-> log, medication_id |-> Py("int", 9, << >>)] }
          \cup { [action |-> log, medication_id |-> Py("int", n, << >>), taken |-> Py("bool", 1, << >>)] : n \in {1, 4, 9} }
          \cup { [action |-> log, medication_id |-> Py("int", n, << >>), taken |-> Py("bool", 0, << >>)] : n \in {1, 9} }
          \cup { [action |-> Py("str", 0, << "l", "i", "s", "t" >>), patient_id |-> Py("str", 0, << "demo_patient_001" >>)],
                 [action |-> Py("str", 0, << "l", "i", "s", "t" >>)],
                 [action |-> Py("str", 0, << "a", "d", "h", "e", "r", "e", "n", "c", "e" >>), patient_id |-> Py("str", 0, << "demo_patient_001" >>)],
                 [action |-> Py("str", 0, << "d", "e", "l", "e", "t", "e" >>), id |-> Py("int", 1, << >>)],
                 [patient_id |-> Py("str", 0, << "demo_patient_001" >>)],
                 [action |-> Py("NoneType", 0, << >>), id |-> Py("int", 1, << >>)] }
      from_text ==
        { add, [k \in (DOMAIN add) \ {"dosage"} |-> add[k]],
          [action |-> log, medication_id |-> Py("int", 9, << >>), taken |-> Py("bool", 1, << >>)],
          [action |-> update, id |-> Py("int", 9, << >>)] }
  IN  \/ \E data \in requests : MedicationToolRun("dict", data)
      \/ \E data \in from_text : MedicationToolRun("text", data)
      \/ \E kind \in {"text_list", "text_invalid", "other"} : MedicationToolRun(kind, [k \in {} |-> 0])

SpecMedication == InitWith({ << "Medication Tool", "Symptom Tool" >> }) /\ [][NextMedication]_vars

(* SymptomTool.run is called and returns or raises *)
SymptomToolRun(kind, data) ==
  /\ kind \in {"dict", "text"} \/ data = [k \in {} |-> 0]
  /\ \E out \in { SymptomRun(kind, data, symptoms) } :
       /\ Len(out.rows) <= Len(SampleData.symptoms) + MaxRows
       /\ symptoms' = out.rows
       /\ symptom_call' = [kind |-> kind, data |-> data, reply |-> out.reply, raised |-> out.raised]
  /\ UNCHANGED << given, tools, messages, pc, response, result, sent, runs, round, calls,
                  turns, history, chat_history, saved, patient_id, files, agent,
                  agent_initialized, parse_text, parse_result, peer,
                  medications, medication_logs, med_call, ares_api_key, info_call,
                  ares_requests, llm_requests >>

(* the calls of SymptomTool.run: log requests with severities of every     *)
(* type, requests without a required field, the other actions             *)
NextSymptom ==
  LET log == Py("str", 0, << "l", "o", "g" >>)
      nausea == Py("str", 0, << "Nausea" >>)
      severities ==
        { Py("int", n, << >>) : n \in { 0 - 3, 0, 1, 4, 10, 11, 250 } }
          \cup { Py("str", 0, w) : w \in { << "m", "i", "l", "d" >>,
                                           << "S", "e", "v", "e", "r", "e" >>,
                                           << "E", "X", "T", "R", "E", "M", "E" >>,
                                           << "v", "e", "r", "y", " ", "m", "i", "l", "d" >>,
                                           << "m", "i", "n", "i", "m", "a", "l" >>,
                                           << "a", "w", "f", "u", "l" >>,
                                           << "7" >>,
                                           << " ", "m", "i", "l", "d" >> } }
          \cup { Py("float", 79, << >>), Py("float", 0 - 5, << >>), Py("float", 105, << >>), Py("float", 4, << >>),
                 Py("float", 0, << "inf" >>), Py("float", 0, << "nan" >>),
                 Py("NoneType", 0, << >>), Py("bool", 1, << >>), Py("bool", 0, << >>), Py("list", 1, << >>) }
      full == [action |-> log, patient_id |-> Py("str", 0, << "demo_patient_001" >>), symptom |-> nausea, severity |-> Py("int", 12, << >>)]
      requests ==
        { [full EXCEPT !.action = a, !.severity = s] : a \in { log, Py("str", 0, << "L", "o", "g" >>) }, s \in severities }
          \cup { [k \in (DOMAIN full) \ without |-> full[k]] :
                   without \in { {"patient_id"}, {"symptom"}, {"severity"}, {"action"} } }
          \cup { [full EXCEPT !.symptom = Py("NoneType", 0, << >>)],
                 [action |-> log, patient_id |-> Py("str", 0, << "demo_patient_001" >>), symptom |-> nausea,
                  severity |-> Py("int", 2, << >>), description |-> Py("list", 1, << >>)],
                 [action |-> Py("str", 0, << "l", "i", "s", "t" >>), patient_id |-> Py("str", 0, << "demo_patient_001" >>)],
                 [action |-> Py("str", 0, << "l", "i", "s", "t" >>)],
                 [action |-> Py("str", 0, << "a", "n", "a", "l", "y", "z", "e" >>), patient_id |-> Py("str", 0, << "demo_patient_001" >>)],
                 [action |-> Py("str", 0, << "r", "e", "m", "o", "v", "e" >>), patient_id |-> Py("str", 0, << "demo_patient_001" >>)],
                 [action |-> Py("NoneType", 0, << >>), patient_id |-> Py("str", 0, << "demo_patient_001" >>)] }
      from_text ==
        { [full EXCEPT !.severity = s] :
            s \in { Py("str", 0, << "s", "e", "v", "e", "r", "e" >>), Py("int", 0, << >>), Py("float", 79, << >>), Py("float", 0, << "inf" >>) } }
          \cup { [action |-> log, symptom |-> nausea] }
  IN  \/ \E data \in requests : SymptomToolRun("dict", data)
      \/ \E data \in from_text : SymptomToolRun("text", data)
      \/ \E kind \in {"text_list", "text_invalid", "other"} : SymptomToolRun(kind, [k \in {} |-> 0])

SpecSymptom == InitWith({ << "Medication Tool", "Symptom Tool" >> }) /\ [][NextSymptom]_vars

(* MedicalInfoTool.run(prompt) is called and returns or raises *)
MedicalInfoToolRun(http, llm) ==
  /\ info_call.status = "called"
  /\ \E out \in { MedicalInfoRun(info_call.prompt, ares_api_key, http, llm) } :
       /\ info_call' = [status |-> "returned", prompt |-> info_call.prompt, reply |-> out.reply,
                        llm_response |-> out.llm_response, raised |-> out.raised]
       /\ ares_requests' = ares_requests \o out.posted
       /\ llm_requests' = llm_requests \o out.asked
  /\ UNCHANGED << given, tools, messages, pc, response, result, sent, runs, round, calls,
                  turns, history, chat_history, saved, patient_id, files, agent,
                  agent_initialized, parse_text, parse_result, peer,
                  medications, medication_logs, med_call, symptoms, symptom_call, ares_api_key >>

(* MedicalInfoTool() with TRAVERSAAL_ARES_API_KEY unset, empty or set, and *)
(* run called with a query: every keyword in three spellings, alone and    *)
(* inside a sentence or a longer word, queries that come close to a        *)
(* keyword, and a value that is no string                                  *)
InitMedicalInfo ==
  LET sensitive_keywords ==
        << << "d", "i", "a", "g", "n", "o", "s", "e" >>,
         << "d", "i", "a", "g", "n", "o", "s", "i", "s" >>,
         << "c", "a", "n", "c", "e", "r" >>,
         << "t", "e", "r", "m", "i", "n", "a", "l" >>,
         << "f", "a", "t", "a", "l" >>,
         << "e", "m", "e", "r", "g", "e", "n", "c", "y" >>,
         << "l", "i", "f", "e", "-", "t", "h", "r", "e", "a", "t", "e", "n", "i", "n", "g" >>,
         << "c", "r", "i", "t", "i", "c", "a", "l" >>,
         << "u", "r", "g", "e", "n", "t", " ", "m", "e", "d", "i", "c", "a", "l" >>,
         << "s", "u", "i", "c", "i", "d", "e" >>,
         << "s", "e", "l", "f", "-", "h", "a", "r", "m" >> >>
      UpperCase == << "A", "B", "C", "D", "E", "F", "G", "H", "I", "J", "K", "L", "M", "N", "O", "P", "Q", "R", "S", "T", "U", "V", "W", "X", "Y", "Z" >>
      LowerCase == << "a", "b", "c", "d", "e", "f", "g", "h", "i", "j", "k", "l", "m", "n", "o", "p", "q", "r", "s", "t", "u", "v", "w", "x", "y", "z" >>
      upper(s) == [i \in 1..Len(s) |->
                     IF \E j \in 1..26 : LowerCase[j] = s[i]
                     THEN UpperCase[CHOOSE j \in 1..26 : LowerCase[j] = s[i]]
                     ELSE s[i]]
      capital(s) == [i \in 1..Len(s) |-> IF i = 1 THEN upper(s)[1] ELSE s[i]]
      spellings == UNION { { sensitive_keywords[i], upper(sensitive_keywords[i]),
                             capital(sensitive_keywords[i]) } : i \in 1..Len(sensitive_keywords) }
      before == { << >>, << "u", "n" >>, << "I", "s", " ", "i", "t", " " >> }
      after == { << >>, << "d", "?" >> }
      queries ==
        { Py("str", 0, b \o k \o a) : b \in before, k \in spellings, a \in after }
          \cup { Py("str", 0, q) : q \in { << "w", "h", "a", "t", " ", "i", "s", " ", "a", "s", "p", "i", "r", "i", "n" >>,
                                     << "u", "r", "g", "e", "n", "t", " ", "c", "a", "r", "e" >>,
                                     << "l", "i", "f", "e", " ", "t", "h", "r", "e", "a", "t", "e", "n", "i", "n", "g" >>,
                                     << "s", "e", "l", "f", " ", "h", "a", "r", "m" >>,
                                     << "d", "i", "a", "g", "n", "o", "s" >>,
                                     << "c", "r", "i", "t", "i", "c" >>,
                                     << >> } }
          \cup { Py("list", 1, << >>) }
  IN  /\ AgentInit({ << "Medication Tool", "Symptom Tool" >> })
      /\ parse_text = << >> /\ parse_result = NotParsed
      /\ ares_api_key \in { Py("NoneType", 0, << >>), Py("str", 0, << >>), Py("str", 0, << "ares-key" >>) }
      /\ \E q \in queries :
           info_call = [status |-> "called", prompt |-> q, reply |-> << >>, llm_response |-> << >>,
                        raised |-> ""]

NextMedicalInfo ==
  \E http \in { "predictions", "not_json", "status_500", "connection_error" } :
    \E llm \in { [ok |-> TRUE, text |-> << "general information" >>],
                 [ok |-> FALSE, text |-> << "rate limit" >>] } :
      MedicalInfoToolRun(http, llm)

SpecMedicalInfo == InitMedicalInfo /\ [][NextMedicalInfo]_vars

(* ---------------------------------------------------------------------- *)
(* Vocabulary of the properties                                           *)
(* ---------------------------------------------------------------------- *)
LastMessage == messages[Len(messages)]

(* t is s without its leading and trailing whitespace *)
IsTrimOf(t, s) ==
  \E a \in 1..(Len(s) + 1) : \E b \in 0..Len(s) :
    /\ t = SubSeq(s, a, b)
    /\ \A k \in 1..(a - 1) : s[k] \in Whitespace
    /\ \A k \in (b + 1)..Len(s) : s[k] \in Whitespace
    /\ t # << >> => (t[1] \notin Whitespace /\ t[Len(t)] \notin Whitespace)

(* t is the trimmed text after the last 'Response:' of completion c *)
IsTextAfterLastResponse(t, c) ==
  \E i \in 1..Len(c) :
    /\ c[i] = RESPONSE_MARK
    /\ \A j \in (i + 1)..Len(c) : c[j] # RESPONSE_MARK
    /\ IsTrimOf(t, SubSeq(c, i + 1, Len(c)))

HasResponse(c) == \E i \in 1..Len(c) : c[i] = RESPONSE_MARK
HasAction(c) == \E i \in 1..Len(c) : c[i] = ACTION_MARK
HasInput(c) == \E i \in 1..Len(c) : c[i] = INPUT_MARK

IsToolStep(c) == ~HasResponse(c) /\ HasAction(c) /\ HasInput(c)
IsMalformed(c) == ~HasResponse(c) /\ ~(HasAction(c) /\ HasInput(c))

(* index of the message that opened the current turn *)
TurnStart ==
  CHOOSE i \in 0..Len(messages) :
    /\ i > 0 => (messages[i].role = "user" /\ StartsWith(messages[i].content, "Patient:"))
    /\ \A j \in (i + 1)..Len(messages) :
         ~(messages[j].role = "user" /\ StartsWith(messages[j].content, "Patient:"))

(* the completions received so far in the current turn *)
TurnCompletions ==
  { messages[j].content : j \in { k \in (TurnStart + 1)..Len(messages) :
                                    messages[k].role = "assistant" } }

(* ---------------------------------------------------------------------- *)
(* C1: a completion that contains 'Response:' ends the turn at once, and   *)
(* the value returned is the text after the LAST 'Response:' of that       *)
(* completion, without leading and trailing whitespace.                    *)
(* ---------------------------------------------------------------------- *)
C1_FinalResponseReturned ==
  (LastMessage.role = "assistant" /\ HasResponse(LastMessage.content)) =>
    /\ pc = "idle"
    /\ result.kind = "final"
    /\ IsTextAfterLastResponse(result.text, LastMessage.content)

(* a turn answered by a completion with two 'Response:' markers *)
C1_Witness ==
  /\ pc = "idle"
  /\ result.kind = "final"
  /\ LastMessage.role = "assistant"
  /\ Cardinality({i \in 1..Len(LastMessage.content) :
                    LastMessage.content[i] = RESPONSE_MARK}) = 2
  /\ result.text = << OTHER_WORD >>

(* ---------------------------------------------------------------------- *)
(* C2: a bounded retry policy ends the turn on malformed output: the loop  *)
(* is never about to call the provider again after as many malformed       *)
(* completions in one turn as the explored horizon holds.  (Any policy     *)
(* with a limit of at most MaxCalls satisfies this.)                       *)
(* ---------------------------------------------------------------------- *)
C2_MalformedRetriesBounded ==
  ~( /\ pc = "awaiting"
     /\ round >= MaxCalls
     /\ \A c \in TurnCompletions : IsMalformed(c) )

(* ---------------------------------------------------------------------- *)
(* C3: a maximum turn count ends the turn: the loop is never about to call *)
(* the provider again after as many tool steps in one turn as the explored *)
(* horizon holds.  (Any cap of at most MaxCalls satisfies this.)           *)
(* ---------------------------------------------------------------------- *)
C3_ToolStepsBounded ==
  ~( /\ pc = "awaiting"
     /\ round >= MaxCalls
     /\ \A c \in TurnCompletions : IsToolStep(c) )

(* ---------------------------------------------------------------------- *)
(* C4: a step in which the provider call fails (a call is counted, nothing *)
(* is appended) ends the turn with the fixed apology as the returned value *)
(* whatever the failure was and at whatever iteration.                     *)
(* ---------------------------------------------------------------------- *)
C4_ProviderFailureApology ==
  [][ (pc = "awaiting" /\ calls' = calls + 1 /\ response' = response /\ round' = round)
        => (pc' = "idle" /\ result' = [kind |-> "apology", text |-> APOLOGY]) ]_vars

(* the provider failed after a tool step of the same turn *)
C4_Witness ==
  /\ result.kind = "apology"
  /\ round >= 1
  /\ LastMessage.role = "user"
  /\ StartsWith(LastMessage.content, OBSERVATION_MARK)

(* ---------------------------------------------------------------------- *)
(* C5: after a provider failure the conversation is the one that was       *)
(* handed to the failed call: nothing of the turn is lost, no Assistant    *)
(* message stands for the failed attempt; after a failure of the first     *)
(* attempt the last message is the patient's message of this turn.         *)
(* ---------------------------------------------------------------------- *)
C5_FailureKeepsConversation ==
  result.kind = "apology" =>
    /\ messages = sent
    /\ Cardinality({k \in (TurnStart + 1)..Len(messages) :
                      messages[k].role = "assistant"}) = round
    /\ round = 0 => /\ TurnStart = Len(messages)
                    /\ LastMessage.role = "user"

(* the first attempt of the first turn failed: system and patient message *)
C5_Witness ==
  /\ result.kind = "apology"
  /\ round = 0
  /\ Len(messages) = 2
  /\ messages[1].role = "system"
  /\ messages[2] = Message("user", PatientMessage(<< "hello" >>))

(* ---------------------------------------------------------------------- *)
(* Vocabulary of the tool-step properties, stated on the lines of the      *)
(* completion                                                              *)
(* ---------------------------------------------------------------------- *)
LinesOf(c) == Split(c, NL)

(* the completion holds the literal text 'Action: T' *)
Mentions(c, T) ==
  \E i \in 1..(Len(c) - 2) : c[i] = ACTION_MARK /\ c[i + 1] = SP /\ c[i + 2] = T

(* the last line that begins with 'Action:' names T, up to letter case and *)
(* surrounding whitespace                                                  *)
LastActionNames(c, T) ==
  LET ls == LinesOf(c) IN
  \E k \in 1..Len(ls) :
    /\ StartsWith(ls[k], ACTION_MARK)
    /\ \A m \in (k + 1)..Len(ls) : ~StartsWith(ls[m], ACTION_MARK)
    /\ Lower(Strip(RemoveAll(ls[k], ACTION_MARK))) = << T >>

NamesRegisteredTool(c) == \E T \in Keys(tools) : LastActionNames(c, T)

(* line k lies in an open Action Input section *)
InInputSection(ls, k) ==
  \E j \in 1..(k - 1) :
    /\ StartsWith(ls[j], INPUT_MARK)
    /\ \A m \in (j + 1)..(k - 1) : ~StartsWith(ls[m], OBSERVATION_MARK)

(* what line k adds to the argument: nothing, or its trimmed text *)
Contribution(ls, k) ==
  IF StartsWith(ls[k], INPUT_MARK) THEN Strip(RemoveAll(ls[k], INPUT_MARK))
  ELSE IF StartsWith(ls[k], ACTION_MARK) \/ StartsWith(ls[k], OBSERVATION_MARK)
  THEN << >>
  ELSE IF InInputSection(ls, k) THEN Strip(ls[k])
  ELSE << >>

(* Y: the accumulated argument text of the completion *)
AccumulatedText(c) ==
  LET ls == LinesOf(c)
      parts == [k \in 1..Len(ls) |-> Contribution(ls, k)]
  IN Join(SelectSeq(parts, LAMBDA x : x # << >>), NL)

(* Y decoded when it parses as JSON, the raw Y otherwise *)
ExpectedArgument(c) ==
  LET y == AccumulatedText(c) IN
  IF JsonLoads(y).ok
  THEN [json |-> TRUE, value |-> SelectSeq(y, LAMBDA t : t \notin Whitespace)]
  ELSE [json |-> FALSE, value |-> y]

(* the step appends exactly message m to the conversation *)
AppendsOne == Len(messages') = Len(messages) + 1
              /\ SubSeq(messages', 1, Len(messages)) = messages

Appended == messages'[Len(messages')]

IsObservationMessage(m) ==
  /\ m.role = "user"
  /\ Len(m.content) >= 2
  /\ m.content[1] = OBSERVATION_MARK
  /\ m.content[2] = SP

(* a completion has just been received in this step *)
Received == pc = "awaiting" /\ round' = round + 1

(* ---------------------------------------------------------------------- *)
(* C6: a completion with 'Action:' and 'Action Input:' and no 'Response:'  *)
(* leads to one dispatch; the dispatch appends exactly one User message    *)
(* 'Observation: ' + text right after the Assistant message that holds the *)
(* completion, invokes at most one tool, returns nothing to the caller and *)
(* goes back to requesting a completion.                                   *)
(* ---------------------------------------------------------------------- *)
C6_ToolStepAppendsObservation ==
  [][ /\ (Received /\ IsToolStep(response')) =>
           (pc' = "tool" /\ messages' = Append(messages, Message("assistant", response')))
      /\ pc = "tool" =>
           /\ IsToolStep(response)
           /\ LastMessage = Message("assistant", response)
           /\ AppendsOne
           /\ IsObservationMessage(Appended)
           /\ Len(runs') <= Len(runs) + 1
           /\ calls' = calls
           /\ result' = NoResult
           /\ pc' = "awaiting" ]_vars

(* a tool result was fed back and the loop asks the provider again *)
C6_Witness ==
  /\ pc = "awaiting"
  /\ Len(messages) >= 4
  /\ messages[Len(messages) - 1] = Message("assistant", response)
  /\ IsToolStep(response)
  /\ LastMessage = Message("user", << OBSERVATION_MARK, SP, "done" >>)

(* ---------------------------------------------------------------------- *)
(* C7: a completion with 'Response:' and also 'Action:' and                *)
(* 'Action Input:' ends the turn with the text after the last 'Response:'; *)
(* no tool runs, and no Observation is appended then or while the agent    *)
(* is idle afterwards.                                                     *)
(* ---------------------------------------------------------------------- *)
C7_FinalResponseWins ==
  [][ /\ (Received /\ HasResponse(response') /\ HasAction(response') /\ HasInput(response')) =>
           /\ pc' = "idle"
           /\ runs' = runs
           /\ messages' = Append(messages, Message("assistant", response'))
           /\ result'.kind = "final"
           /\ IsTextAfterLastResponse(result'.text, response')
      /\ pc = "idle" =>
           /\ runs' = runs
           /\ ~IsObservationMessage(Appended) ]_vars

(* the turn ended on a completion that also asked for a tool *)
C7_Witness ==
  /\ pc = "idle"
  /\ result.kind = "final"
  /\ LastMessage = Message("assistant", response)
  /\ HasResponse(response) /\ HasAction(response) /\ HasInput(response)
  /\ runs = << >>

(* ---------------------------------------------------------------------- *)
(* C8 as stated: once a completion that holds 'Action: T' for a registered *)
(* T and 'Action Input:' has been handled, T.run was invoked exactly once  *)
(* for it, with the decoded-or-raw argument.                               *)
(* ---------------------------------------------------------------------- *)
C8_EveryMentionedToolRuns ==
  (round >= 1 /\ pc # "tool" /\ result.kind \in {"none", "final"} /\ HasInput(response)) =>
    \A T \in Keys(tools) :
      Mentions(response, T) =>
        Cardinality({i \in 1..Len(runs) :
                       /\ runs[i].call = calls
                       /\ runs[i].tool = T
                       /\ runs[i].arg = ExpectedArgument(response)}) = 1

(* ---------------------------------------------------------------------- *)
(* C8 amended: a completion without 'Response:' that holds 'Action Input:' *)
(* and whose last line beginning with 'Action:' names a registered tool T  *)
(* is dispatched, and the dispatch invokes T.run exactly once, with the    *)
(* accumulated argument text Y decoded when Y parses as JSON and with the  *)
(* raw Y otherwise; no provider call has two invocations.                  *)
(* ---------------------------------------------------------------------- *)
C8_NamedToolRunsWithArgument ==
  [][ /\ \A i, j \in 1..Len(runs) : i < j => runs[i].call < runs[j].call
      /\ \A T \in Keys(tools) :
           /\ (Received /\ ~HasResponse(response') /\ HasInput(response')
                 /\ LastActionNames(response', T)) => pc' = "tool"
           /\ (pc = "tool" /\ LastActionNames(response, T)) =>
                /\ runs' = Append(runs, runs'[Len(runs')])
                /\ runs'[Len(runs')].tool = T
                /\ runs'[Len(runs')].arg = ExpectedArgument(response)
                /\ runs'[Len(runs')].call = calls
                /\ pc' = "awaiting" ]_vars

(* one tool was run with a decoded argument and one with a raw text *)
C8_Witness ==
  \E i, j \in 1..Len(runs) :
    /\ runs[i].arg.json
    /\ ~runs[j].arg.json
    /\ runs[j].arg.value # << >>

(* ---------------------------------------------------------------------- *)
(* C9: a dispatch whose tool name is absent or names no registered tool    *)
(* runs no tool, appends the Observation "Tool '..' not found" followed by *)
(* every registered tool name, returns nothing to the caller and goes back *)
(* to requesting a completion.                                             *)
(* ---------------------------------------------------------------------- *)
C9_UnknownToolObservation ==
  [][ (pc = "tool" /\ ~NamesRegisteredTool(response)) =>
        /\ runs' = runs
        /\ AppendsOne
        /\ IsObservationMessage(Appended)
        /\ Appended.content[3] = TOOL_QUOTE
        /\ \E p \in 1..Len(Appended.content) :
             /\ Appended.content[p] = NOT_FOUND
             /\ \A k \in Keys(tools) :
                  \E q \in (p + 1)..Len(Appended.content) : Appended.content[q] = k
        /\ result' = NoResult
        /\ pc' = "awaiting" ]_vars

(* the not-found observation for an absent tool name was fed back *)
C9_Witness ==
  /\ pc = "awaiting"
  /\ LastMessage.role = "user"
  /\ Len(LastMessage.content) >= 5
  /\ LastMessage.content[3] = TOOL_QUOTE
  /\ LastMessage.content[4] = "None"
  /\ LastMessage.content[5] = NOT_FOUND

(* ---------------------------------------------------------------------- *)
(* C10: a dispatch in which the tool's run() raises appends the            *)
(* Observation that carries the error text, like any observation; the      *)
(* turn goes on with the next provider request and nothing (no apology)    *)
(* is returned to the caller.                                              *)
(* ---------------------------------------------------------------------- *)
C10_ToolFailureObservation ==
  [][ (pc = "tool" /\ Len(runs') > Len(runs) /\ runs'[Len(runs')].raised) =>
        /\ AppendsOne
        /\ IsObservationMessage(Appended)
        /\ \E e \in ToolErrors :
             \E p \in 1..(Len(Appended.content) - 1) :
               Appended.content[p] = ERROR_LABEL /\ Appended.content[p + 1] = e
        /\ result' = NoResult
        /\ pc' = "awaiting" ]_vars

(* a tool failure was fed back and the turn is still running *)
C10_Witness ==
  /\ pc = "awaiting"
  /\ runs # << >>
  /\ runs[Len(runs)].raised
  /\ LastMessage.role = "user"
  /\ \E p \in 1..Len(LastMessage.content) : LastMessage.content[p] = TOOL_ERROR

(* ---------------------------------------------------------------------- *)
(* C11: a provider failure undoes nothing.  In the step in which the       *)
(* provider call fails, the tool invocations made so far and the           *)
(* conversation stay as they are, every tool result of the turn stands in  *)
(* the conversation as an Observation message, and the apology is          *)
(* returned.                                                               *)
(* ---------------------------------------------------------------------- *)
ProviderFails ==
  pc = "awaiting" /\ calls' = calls + 1 /\ round' = round /\ response' = response

(* the invocations of the current turn that returned *)
TurnResults == { i \in 1..Len(runs) : runs[i].call > calls - round /\ ~runs[i].raised }

(* the Observation messages of the current turn that carry a tool result *)
TurnResultObservations ==
  { k \in (TurnStart + 1)..Len(messages) :
      /\ messages[k].role = "user"
      /\ \E out \in ToolOutputs : messages[k].content = << OBSERVATION_MARK, SP >> \o out }

C11_SideEffectsSurviveFailure ==
  [][ ProviderFails =>
        /\ runs' = runs
        /\ messages' = messages
        /\ Cardinality(TurnResultObservations) = Cardinality(TurnResults)
        /\ result'.kind = "apology" ]_vars

(* the apology was returned right after a tool had run and returned *)
C11_Witness ==
  /\ result.kind = "apology"
  /\ runs # << >>
  /\ ~runs[Len(runs)].raised
  /\ runs[Len(runs)].call = calls - 1
  /\ LastMessage = Message("user", << OBSERVATION_MARK, SP, "done" >>)

(* ---------------------------------------------------------------------- *)
(* C12: the conversation is never empty and its first message is the       *)
(* System message that the constructor built, with the same content.       *)
(* ---------------------------------------------------------------------- *)
C12_SystemMessageFirst ==
  /\ Len(messages) >= 1
  /\ messages[1] = Message("system", HealthPrompt(given))
  /\ \A k \in 2..Len(messages) : messages[k].role # "system"

(* a second turn was started on a conversation that had been cleared *)
C12_Witness ==
  /\ turns = 2
  /\ pc = "awaiting"
  /\ Len(messages) = 2
  /\ calls >= 1

(* ---------------------------------------------------------------------- *)
(* C13: every step of a turn extends the conversation: the conversation    *)
(* before the step is a prefix of the conversation after it.  The only     *)
(* step that does not is clear(), taken between turns.                     *)
(* ---------------------------------------------------------------------- *)
IsPrefix(a, b) == Len(a) <= Len(b) /\ SubSeq(b, 1, Len(a)) = a

C13_TurnOnlyAppends ==
  [][ /\ (pc # "idle" \/ turns' # turns) => IsPrefix(messages, messages')
      /\ ~IsPrefix(messages, messages') =>
           (pc = "idle" /\ pc' = "idle" /\ result'.kind = "cleared") ]_vars

(* a turn that has appended four messages after the patient's message *)
C13_Witness ==
  /\ pc = "awaiting"
  /\ round = 2
  /\ TurnStart = 2
  /\ Len(messages) = 6

(* ---------------------------------------------------------------------- *)
(* C14: clear() leaves exactly the System message of the constructor,      *)
(* whatever the length of the conversation was, and returns the            *)
(* confirmation text; the registry, the tool invocations made, the         *)
(* displayed history and the persisted transcript stay as they are.        *)
(* ---------------------------------------------------------------------- *)
ClearStep ==
  /\ pc = "idle" /\ pc' = "idle"
  /\ history' = history
  /\ peer' = peer
  /\ turns' = turns

C14_ClearKeepsSystemOnly ==
  [][ ClearStep =>
        /\ messages' = << Message("system", HealthPrompt(given)) >>
        /\ result' = [kind |-> "cleared", text |-> CLEARED]
        /\ tools' = tools /\ given' = given
        /\ saved' = saved /\ chat_history' = chat_history
        /\ runs' = runs ]_vars

(* cleared after a turn with a tool step, the transcript still persisted *)
C14_Witness ==
  /\ result.kind = "cleared"
  /\ Len(messages) = 1
  /\ runs # << >>
  /\ Len(saved) = 3

(* ---------------------------------------------------------------------- *)
(* C15: the step that starts a turn appends the User message 'Patient: ' + *)
(* u for the message u the caller passed, and changes nothing else of the  *)
(* agent; no provider call has been made by then, and the conversation     *)
(* handed to every provider call of the turn holds that message at the     *)
(* start of the turn.                                                      *)
(* ---------------------------------------------------------------------- *)
C15_PatientMessageFirst ==
  [][ /\ turns' = turns + 1 =>
           /\ \E u \in VariedPrompts :
                /\ chat_history'[Len(chat_history')] = Message("user", u)
                /\ messages' = Append(messages, Message("user", << "Patient:", SP >> \o u))
           /\ calls' = calls /\ sent' = sent /\ runs' = runs /\ response' = response
           /\ round' = 0
      /\ calls' = calls + 1 =>
           /\ TurnStart >= 2
           /\ round = Cardinality({k \in (TurnStart + 1)..Len(messages) :
                                     messages[k].role = "assistant"})
           /\ Len(sent') >= TurnStart
           /\ sent'[TurnStart] =
                Message("user", << "Patient:", SP >> \o chat_history[Len(chat_history)].content) ]_vars

(* the provider was called in a second turn that carries another prompt *)
C15_Witness ==
  /\ turns = 2
  /\ round >= 1
  /\ TurnStart > 2
  /\ Len(sent) >= TurnStart
  /\ sent[TurnStart] = Message("user", << "Patient:", SP, REFILL, SP, OTHER_WORD >>)
  /\ messages[2] = Message("user", << "Patient:", SP, "hello" >>)

(* ---------------------------------------------------------------------- *)
(* C16: a step that changes what getHistory() returned is a read of the    *)
(* conversation as it is: the value returned is the conversation, and the  *)
(* conversation, the registry, the tool invocations, the returned value of *)
(* the last turn and the caller's transcript are unchanged; so a second    *)
(* read with no turn and no clear() in between returns the same sequence.  *)
(* ---------------------------------------------------------------------- *)
C16_GetHistoryReads ==
  [][ /\ history' # history =>
           /\ history' = messages
           /\ UNCHANGED << medications, medication_logs, med_call, symptoms, symptom_call,
                           ares_api_key, info_call, ares_requests, llm_requests,
                           given, agent, agent_initialized, parse_text, parse_result, patient_id, tools, messages, pc, response, result, sent, runs,
                           round, calls, turns, chat_history, saved, files, peer >>
      /\ (history = messages /\ messages' = messages) => history' = history ]_vars

(* the history was read after a turn that ended with a final response *)
C16_Witness ==
  /\ history = messages
  /\ Len(history) >= 3
  /\ history[Len(history)].role = "assistant"
  /\ result.kind = "final"

(* ---------------------------------------------------------------------- *)
(* C17: after a turn that its first completion answered, the second to     *)
(* last message is the User message of that turn (the message the caller   *)
(* passed) and the last message is the Assistant message that holds the    *)
(* completion.                                                             *)
(* ---------------------------------------------------------------------- *)
C17_UserThenAssistant ==
  (result.kind = "final" /\ round = 1) =>
    /\ Len(messages) >= 3
    /\ Len(chat_history) >= 2
    /\ messages[Len(messages) - 1] =
         Message("user", << "Patient:", SP >> \o chat_history[Len(chat_history) - 1].content)
    /\ messages[Len(messages)] = Message("assistant", response)
    /\ HasResponse(response)

(* the second turn, with another prompt, was answered at once *)
C17_Witness ==
  /\ result.kind = "final"
  /\ round = 1
  /\ turns = 2
  /\ Len(messages) >= 5
  /\ messages[Len(messages) - 1] = Message("user", << "Patient:", SP, REFILL, SP, OTHER_WORD >>)
  /\ messages[Len(messages)].role = "assistant"

(* ---------------------------------------------------------------------- *)
(* C18: no tool is silently replaced.  Every tool that was given to an     *)
(* agent that exists is registered under its normalized name (a list with  *)
(* a duplicate name would have been rejected with an error instead).       *)
(* ---------------------------------------------------------------------- *)
C18_NoToolReplaced ==
  /\ tools = DictKeys(FormatTools(given))
  /\ \A i \in 1..Len(given) :
       \E j \in 1..Len(tools) :
         /\ FormatTools(given)[j].key = NormalizeName(given[i])
         /\ FormatTools(given)[j].tool = i

(* ---------------------------------------------------------------------- *)
(* C19: the registry keys are the normalized names of the given tools, and *)
(* a dispatch runs the tool with key k exactly when the requested name     *)
(* (the text after 'Action:' on the last such line) is k up to letter case *)
(* and surrounding whitespace; for every other requested name, and for an  *)
(* absent one, no tool runs and the not-found Observation is appended.     *)
(* ---------------------------------------------------------------------- *)
NameLexemes ==
  { MED, SYM, UNK, "Medication_Tool", "SYMPTOM_TOOL", "Medication", "Tool",
    "medication", "tool" }

(* the lexemes that differ from key k in letter case only *)
CaseVariants(k) == { t \in NameLexemes : LowerTok(t) = k }

(* the requested names of the completion: the text after the marker on the *)
(* last line that begins with 'Action:' (none when there is no such line)  *)
RequestedNames(c) ==
  LET ls == LinesOf(c) IN
  { RemoveAll(ls[k], ACTION_MARK) :
      k \in { n \in 1..Len(ls) :
                /\ StartsWith(ls[n], ACTION_MARK)
                /\ \A m \in (n + 1)..Len(ls) : ~StartsWith(ls[m], ACTION_MARK) } }

Requests(c, k) ==
  \E name \in RequestedNames(c) : \E t \in CaseVariants(k) : IsTrimOf(<< t >>, name)

(* the step invokes the tool with key k, once *)
RunsTool(k) ==
  /\ Len(runs') = Len(runs) + 1
  /\ SubSeq(runs', 1, Len(runs)) = runs
  /\ runs'[Len(runs')].tool = k

C19_LookupNormalizes ==
  [][ /\ Keys(tools) = { NormalizeName(given[i]) : i \in 1..Len(given) }
      /\ \A k \in Keys(tools) : LowerTok(k) = k /\ k \notin Whitespace
      /\ pc = "tool" =>
           /\ \A k \in Keys(tools) :
                Requests(response, k) <=> RunsTool(k)
           /\ (\A k \in Keys(tools) : ~Requests(response, k)) =>
                /\ runs' = runs
                /\ \E p \in 1..Len(Appended.content) : Appended.content[p] = NOT_FOUND ]_vars

(* one tool was found by a name in other letter case with blanks around    *)
(* it, and a name written with a blank was not found                       *)
C19_Witness ==
  /\ pc = "awaiting"
  /\ response = ToolSpacedName
  /\ \E p \in 1..Len(LastMessage.content) : LastMessage.content[p] = NOT_FOUND
  /\ \E i \in 1..Len(runs) : runs[i].tool = MED /\ runs[i].arg.value = << DIGIT, SP, DIGIT >>

(* ---------------------------------------------------------------------- *)
(* C20: in every interleaving of the steps of two agent instances, a step  *)
(* of one instance leaves the conversation of the other as it is: no step  *)
(* that changes a field of the second instance changes the conversation of *)
(* the first, and no step that changes a field of the first changes the    *)
(* conversation of the second.                                             *)
(* ---------------------------------------------------------------------- *)
C20_SessionsIsolated ==
  [][ /\ peer' # peer => messages' = messages
      /\ << messages, pc, response, result, sent, runs, round, calls, turns >>'
           # << messages, pc, response, result, sent, runs, round, calls, turns >>
           => peer'.messages = peer.messages ]_vars

(* both instances are in the middle of a turn, the second after a tool     *)
(* step, each with its own patient message                                 *)
C20_Witness ==
  /\ pc = "awaiting" /\ peer.pc = "awaiting"
  /\ messages[Len(messages)] = Message("user", << "Patient:", SP, "hello" >>)
  /\ Len(peer.messages) = 4
  /\ peer.messages[2] = Message("user", << "Patient:", SP, REFILL, SP, OTHER_WORD >>)
  /\ IsObservationMessage(peer.messages[4])

(* ---------------------------------------------------------------------- *)
(* C21: the persisted transcript round-trips.  Every step that writes a    *)
(* transcript file leaves the file of the current patient identifier such  *)
(* that a load for that identifier yields exactly the saved sequence of    *)
(* records, in order; and what a load yields for any identifier with a     *)
(* file is the sequence of records that the file holds.                    *)
(* ---------------------------------------------------------------------- *)
C21_TranscriptRoundTrips ==
  [][ files' # files =>
        /\ files'[SafePatientId(patient_id')].exists
        /\ LoadChatHistory(patient_id', files') = chat_history'
        /\ \A id \in PatientIds :
             files'[SafePatientId(id)].exists =>
               JsonDump(LoadChatHistory(id, files')) = files'[SafePatientId(id)].text ]_vars

(* a transcript of a turn whose answer holds a quote, a line break and a   *)
(* backslash was saved, the patient changed, and the change back loaded it *)
C21_Witness ==
  /\ patient_id = DEFAULT_PATIENT
  /\ saved = chat_history
  /\ Len(chat_history) = 3
  /\ chat_history[3] = Message("assistant", << JSTR, NL, BACKSLASH_N, SP, WORD >>)
  /\ Len(messages) = 1
  /\ turns = 1

(* ---------------------------------------------------------------------- *)
(* C22: a turn ends in two ways only.  A step in which __call__ returns is *)
(* either the receipt of a completion that contains 'Response:', returning *)
(* the final text, or a failed provider call, returning the apology.  A    *)
(* dispatch (tool result, tool failure, tool not found) and a malformed    *)
(* completion leave the loop requesting the next completion.               *)
(* ---------------------------------------------------------------------- *)
Returns == pc # "idle" /\ pc' = "idle"

C22_TurnEndsTwoWays ==
  [][ /\ Returns =>
           \/ /\ Received /\ AppendsOne
              /\ Appended.role = "assistant"
              /\ HasResponse(Appended.content)
              /\ result'.kind = "final"
              /\ IsTextAfterLastResponse(result'.text, Appended.content)
           \/ /\ ProviderFails
              /\ result' = [kind |-> "apology", text |-> APOLOGY]
      /\ pc = "tool" => pc' = "awaiting" /\ result' = NoResult
      /\ (Received /\ IsMalformed(Appended.content)) =>
           pc' = "awaiting" /\ result' = NoResult ]_vars

(* a turn that went through a not-found message and a tool failure and was *)
(* ended only by the failure of the third provider call                    *)
C22_Witness ==
  /\ pc = "idle"
  /\ result = [kind |-> "apology", text |-> APOLOGY]
  /\ \E i, j \in (TurnStart + 1)..Len(messages) :
       /\ i < j
       /\ IsObservationMessage(messages[i]) /\ Contains(messages[i].content, NOT_FOUND)
       /\ IsObservationMessage(messages[j]) /\ Contains(messages[j].content, TOOL_ERROR)

(* ---------------------------------------------------------------------- *)
(* C23: when every provider call and every dispatch completes and the      *)
(* provider eventually returns a completion with 'Response:' or fails,     *)
(* every turn that was started eventually returns, with a final response   *)
(* or with the apology.                                                    *)
(* ---------------------------------------------------------------------- *)
C23_TurnEventuallyReturns ==
  (pc # "idle") ~> (pc = "idle" /\ result.kind \in { "final", "apology" })

(* a turn that returned a final response after a tool step and a malformed *)
(* completion                                                              *)
C23_Witness ==
  /\ pc = "idle"
  /\ result.kind = "final"
  /\ round = 3
  /\ \E i \in (TurnStart + 1)..Len(messages) : IsObservationMessage(messages[i])
  /\ \E c \in TurnCompletions : IsMalformed(c)

(* ---------------------------------------------------------------------- *)
(* C24: a completion without 'Response:' that lacks 'Action:' or lacks     *)
(* 'Action Input:' changes the Conversation only by the Assistant message  *)
(* that holds it: no tool is invoked, nothing is returned or saved, the    *)
(* loop requests the next completion, and the next message appended after  *)
(* it is again an Assistant message (no Observation in between).           *)
(* ---------------------------------------------------------------------- *)
C24_MalformedOnlyAppends ==
  [][ /\ (Received /\ IsMalformed(response')) =>
           /\ messages' = Append(messages, Message("assistant", response'))
           /\ pc' = "awaiting"
           /\ runs' = runs
           /\ tools' = tools
           /\ result' = result /\ result = NoResult
           /\ chat_history' = chat_history /\ files' = files
      /\ (pc # "idle" /\ LastMessage.role = "assistant" /\ IsMalformed(LastMessage.content)
          /\ messages' # messages) =>
           /\ pc = "awaiting"
           /\ AppendsOne
           /\ Appended.role = "assistant"
           /\ runs' = runs ]_vars

(* two malformed completions in a row, one with 'Action:' alone and one    *)
(* with 'Action Input:' alone, and the loop is requesting a third          *)
C24_Witness ==
  /\ pc = "awaiting"
  /\ Len(messages) = 4
  /\ messages[3] = Message("assistant", ActionOnly)
  /\ messages[4] = Message("assistant", InputOnly)
  /\ runs = << >>

(* ---------------------------------------------------------------------- *)
(* Vocabulary of the parser properties                                     *)
(* ---------------------------------------------------------------------- *)
Parsed == parse_result.done

(* y decoded when it parses as JSON, the raw y otherwise *)
DecodedOrRaw(y) ==
  IF JsonLoads(y).ok
  THEN [json |-> TRUE, value |-> SelectSeq(y, LAMBDA t : t \notin Whitespace)]
  ELSE [json |-> FALSE, value |-> y]

(* the argument text as C25 states it: from the first line beginning with  *)
(* 'Action Input:' (its text after the marker) to the next line beginning  *)
(* with 'Observation:', every non-empty line in between as it stands       *)
VerbatimText(c) ==
  LET ls == LinesOf(c)
      starts == { k \in 1..Len(ls) : StartsWith(ls[k], INPUT_MARK) }
  IN IF starts = { } THEN << >>
     ELSE LET first == CHOOSE k \in starts : \A m \in starts : k <= m
              ends == { k \in (first + 1)..Len(ls) : StartsWith(ls[k], OBSERVATION_MARK) }
              last == IF ends = { } THEN Len(ls)
                      ELSE (CHOOSE k \in ends : \A m \in ends : k <= m) - 1
              parts == [k \in 1..(last - first + 1) |->
                          IF k = 1 THEN Strip(RemoveAll(ls[first], INPUT_MARK))
                          ELSE ls[first + k - 1]]
          IN Join(SelectSeq(parts, LAMBDA x : x # << >>), NL)

(* ---------------------------------------------------------------------- *)
(* C25 as stated: the argument is the text after the first 'Action Input:' *)
(* marker followed by every later non-empty line verbatim, up to the first *)
(* line beginning with 'Observation:', joined by newlines (decoded when it *)
(* parses as JSON).                                                        *)
(* ---------------------------------------------------------------------- *)
C25_VerbatimUntilObservation ==
  Parsed => parse_result.value.action_input = DecodedOrRaw(VerbatimText(parse_text))

(* ---------------------------------------------------------------------- *)
(* C25 amended: a line beginning with 'Action Input:' starts or resumes    *)
(* accumulation with the trimmed text after the marker when that is not    *)
(* empty; every later line that begins with none of the three markers and  *)
(* is not blank is appended without its leading and trailing whitespace; a *)
(* line beginning with 'Observation:' suspends accumulation until the next *)
(* line beginning with 'Action Input:'; the pieces are joined by newlines  *)
(* and the text is decoded when it parses as JSON.                         *)
(* ---------------------------------------------------------------------- *)
C25_TrimmedLinesAccumulate ==
  Parsed => parse_result.value.action_input = DecodedOrRaw(AccumulatedText(parse_text))

(* a continuation line with leading whitespace was appended without it *)
C25_Witness ==
  /\ Parsed
  /\ LET ls == LinesOf(parse_text) IN
     /\ Len(ls) = 2
     /\ StartsWith(ls[1], INPUT_MARK)
     /\ ls[2] # Strip(ls[2])
     /\ Strip(ls[2]) # << >>
     /\ parse_result.value.action_input = [json |-> FALSE, value |-> Strip(ls[2])]

(* the lines of c that begin with 'Action:' *)
ActionLines(c) == { k \in 1..Len(LinesOf(c)) : StartsWith(LinesOf(c)[k], ACTION_MARK) }

LastActionLine(c) ==
  LinesOf(c)[CHOOSE k \in ActionLines(c) : \A m \in ActionLines(c) : m <= k]

(* ---------------------------------------------------------------------- *)
(* C26 as stated: when several lines begin with 'Action:', the parsed tool *)
(* name is the trimmed text after the marker on the last such line.        *)
(* ---------------------------------------------------------------------- *)
C26_LastActionTextAfterMarker ==
  (Parsed /\ Cardinality(ActionLines(parse_text)) >= 2) =>
    /\ ~parse_result.raised
    /\ parse_result.value.action.present
    /\ parse_result.value.action.name = Strip(Tail(LastActionLine(parse_text)))

(* ---------------------------------------------------------------------- *)
(* C26 amended: when several lines begin with 'Action:', the parsed tool   *)
(* name comes from the last such line alone: it is that line with every    *)
(* occurrence of 'Action:' removed, not only the leading one, and then     *)
(* trimmed; earlier names are overwritten without error.                   *)
(* ---------------------------------------------------------------------- *)
C26_LastActionLineWins ==
  (Parsed /\ Cardinality(ActionLines(parse_text)) >= 2) =>
    /\ ~parse_result.raised
    /\ parse_result.value.action.present
    /\ IsTrimOf(parse_result.value.action.name,
                SelectSeq(LastActionLine(parse_text), LAMBDA t : t # ACTION_MARK))

(* two 'Action:' lines with different names were parsed; the second won *)
C26_Witness ==
  /\ Parsed
  /\ LET ls == LinesOf(parse_text) IN
     /\ Len(ls) >= 2
     /\ ls[1] = << ACTION_MARK, SP, UNK >>
     /\ ls[2] = << ACTION_MARK, SP, SYM >>
     /\ ActionLines(parse_text) = { 1, 2 }
  /\ parse_result.value.action = [present |-> TRUE, name |-> << SYM >>]

(* ---------------------------------------------------------------------- *)
(* C27: the parser returns for every text.  Without a line beginning with  *)
(* 'Action:' the tool name is absent (and only then); when no line adds    *)
(* text to the argument, as for an 'Action Input:' with nothing after it,  *)
(* the argument is the empty string.                                       *)
(* ---------------------------------------------------------------------- *)
C27_ParserTotal ==
  Parsed =>
    /\ ~parse_result.raised
    /\ parse_result.value.action.present <=> ActionLines(parse_text) # { }
    /\ ~parse_result.value.action.present => parse_result.value.action = NoAction
    /\ (\A k \in 1..Len(LinesOf(parse_text)) : Contribution(LinesOf(parse_text), k) = << >>) =>
         parse_result.value.action_input = [json |-> FALSE, value |-> << >>]

(* a text with an empty 'Action Input:' and no line beginning with         *)
(* 'Action:' was parsed                                                    *)
C27_Witness ==
  /\ Parsed
  /\ \E k \in 1..Len(LinesOf(parse_text)) :
       /\ StartsWith(LinesOf(parse_text)[k], INPUT_MARK)
       /\ k = Len(LinesOf(parse_text))
       /\ Strip(Tail(LinesOf(parse_text)[k])) = << >>
  /\ HasAction(parse_text)
  /\ ActionLines(parse_text) = { }
  /\ parse_result.value = [action |-> NoAction,
                           action_input |-> [json |-> FALSE, value |-> << >>]]

(* ---------------------------------------------------------------------- *)
(* C28: within a turn provider calls and tool invocations are strictly     *)
(* ordered.  A tool is invoked only during the dispatch of the completion  *)
(* of the latest provider call, after that completion was appended as an   *)
(* Assistant message, in a step that issues no provider call, and at most  *)
(* once for that completion; the next provider call is issued only after   *)
(* the dispatch is over, and is sent the Observation of that dispatch.     *)
(* ---------------------------------------------------------------------- *)
C28_CallsAndToolsOrdered ==
  [][ /\ runs' # runs =>
           /\ pc = "tool" /\ pc' = "awaiting"
           /\ LastMessage = Message("assistant", response)
           /\ calls' = calls /\ sent' = sent
           /\ Len(runs') = Len(runs) + 1
           /\ SubSeq(runs', 1, Len(runs)) = runs
           /\ runs'[Len(runs')].call = calls
           /\ \A i \in 1..Len(runs) : runs[i].call < calls
      /\ calls' # calls =>
           /\ pc = "awaiting"
           /\ calls' = calls + 1
           /\ runs' = runs
           /\ sent' = messages
           /\ \A i \in 1..Len(runs) : runs[i].call <= calls
           /\ (round > 0 /\ IsToolStep(response)) =>
                IsObservationMessage(sent'[Len(sent')])
           /\ (runs # << >> /\ runs[Len(runs)].call = calls) =>
                IsObservationMessage(sent'[Len(sent')]) ]_vars

(* two completions of one turn each had its tool invoked, and the third    *)
(* provider call of the turn was issued after both                         *)
C28_Witness ==
  /\ calls = 3 /\ round = 3
  /\ Len(runs) = 2
  /\ runs[1].call = 1
  /\ runs[2].call = 2
  /\ Len(sent) = 6
  /\ IsObservationMessage(sent[4]) /\ IsObservationMessage(sent[6])

(* ---------------------------------------------------------------------- *)
(* C29: a dispatch only routes.  Whether it ends in a tool result, in the  *)
(* not-found message or in a tool error, a tool step leaves the registry   *)
(* and every message already in the Conversation as they are; its only     *)
(* change to the Conversation is the one Observation message appended      *)
(* after the dispatch.  The registry never changes after construction.     *)
(* ---------------------------------------------------------------------- *)
C29_DispatchOnlyRoutes ==
  [][ /\ tools' = tools
      /\ pc = "tool" =>
           /\ AppendsOne
           /\ IsObservationMessage(Appended)
           /\ \/ Appended.content = ToolNotFoundObservation(ParseActionString(response).action, tools')
              \/ \E out \in ToolOutputs : Appended.content = << OBSERVATION_MARK, SP >> \o out
              \/ \E e \in ToolErrors :
                   Appended.content = << OBSERVATION_MARK, SP, TOOL_ERROR, NL, ERROR_LABEL, e >>
           /\ response' = response /\ result' = result ]_vars

(* one turn saw the three outcomes of a dispatch, with the registry of two *)
(* tools as it was constructed                                             *)
C29_Witness ==
  /\ pc = "awaiting"
  /\ Len(tools) = 2
  /\ \E i, j, k \in (TurnStart + 1)..Len(messages) :
       /\ IsObservationMessage(messages[i]) /\ Contains(messages[i].content, NOT_FOUND)
       /\ IsObservationMessage(messages[j]) /\ Contains(messages[j].content, TOOL_ERROR)
       /\ \E out \in ToolOutputs : messages[k].content = << OBSERVATION_MARK, SP >> \o out

(* ---------------------------------------------------------------------- *)
(* C30: in every reachable Conversation the roles after the System message *)
(* alternate strictly, starting with User: no two consecutive messages     *)
(* have the same role.                                                     *)
(* ---------------------------------------------------------------------- *)
C30_RolesAlternate ==
  /\ Len(messages) >= 2 => messages[2].role = "user"
  /\ \A i \in 2..(Len(messages) - 1) : messages[i].role # messages[i + 1].role

(* ---------------------------------------------------------------------- *)
(* C30 amended: after the System message the Conversation starts with a    *)
(* User message, and two consecutive messages have the same role in two    *)
(* cases only: an Assistant message that holds a malformed completion is   *)
(* followed by the next completion, and a User message of a turn that      *)
(* ended in a provider failure is followed by the patient message of the   *)
(* next turn.  An Assistant message with a final response or a tool step   *)
(* is never followed by an Assistant message, and an Observation never     *)
(* follows a User message.                                                 *)
(* ---------------------------------------------------------------------- *)
C30_RolesAlternateUnlessFailure ==
  /\ Len(messages) >= 2 => messages[2].role = "user"
  /\ \A i \in 2..(Len(messages) - 1) :
       /\ messages[i].role \in { "user", "assistant" }
       /\ messages[i].role = messages[i + 1].role =>
            \/ /\ messages[i].role = "assistant"
               /\ IsMalformed(messages[i].content)
            \/ /\ messages[i].role = "user"
               /\ StartsWith(messages[i + 1].content, "Patient:")

(* a Conversation with both exceptions: two Assistant messages in a row    *)
(* and, after the failed turn, two User messages in a row                  *)
C30_Witness ==
  /\ \E i \in 2..(Len(messages) - 1) :
       messages[i].role = "assistant" /\ messages[i + 1].role = "assistant"
  /\ \E i \in 2..(Len(messages) - 1) :
       /\ IsObservationMessage(messages[i])
       /\ messages[i + 1].role = "user"

(* ---------------------------------------------------------------------- *)
(* C31: a completion without 'Response:' that contains 'Action:' and       *)
(* 'Action Input:' but has no line beginning with 'Action:' still takes    *)
(* the tool-step branch; its dispatch invokes no tool and appends the      *)
(* not-found Observation for the absent name, printed as None, with the    *)
(* registered names, and the loop requests the next completion.            *)
(* ---------------------------------------------------------------------- *)
C31_NoActionLineNotFound ==
  [][ /\ (Received /\ IsToolStep(response') /\ ActionLines(response') = { }) =>
           /\ pc' = "tool"
           /\ runs' = runs
      /\ (pc = "tool" /\ ActionLines(response) = { }) =>
           /\ runs' = runs
           /\ messages' = Append(messages,
                Message("user", << OBSERVATION_MARK, SP, TOOL_QUOTE, "None", NOT_FOUND >>
                                  \o KeysStr(tools)))
           /\ pc' = "awaiting"
           /\ result' = NoResult ]_vars

(* the completion with 'Action:' after a leading blank, naming a           *)
(* registered tool, was answered with the not-found Observation            *)
C31_Witness ==
  /\ pc = "awaiting"
  /\ Len(messages) >= 4
  /\ messages[Len(messages) - 1] = Message("assistant", ToolMidLine)
  /\ Mentions(ToolMidLine, MED) /\ MED \in Keys(tools)
  /\ LastMessage.content = << OBSERVATION_MARK, SP, TOOL_QUOTE, "None", NOT_FOUND >>
                             \o KeysStr(tools)
  /\ runs = << >>

(* the lines of c that begin with 'Action Input:' *)
InputLines(c) == { k \in 1..Len(LinesOf(c)) : StartsWith(LinesOf(c)[k], INPUT_MARK) }

(* the last line of the section that the 'Action Input:' line j opens: the *)
(* line before the next 'Action Input:' or 'Observation:' line             *)
SectionEnd(ls, j) ==
  LET stops == { m \in (j + 1)..Len(ls) :
                   StartsWith(ls[m], INPUT_MARK) \/ StartsWith(ls[m], OBSERVATION_MARK) }
  IN IF stops = { } THEN Len(ls)
     ELSE (CHOOSE m \in stops : \A n \in stops : m <= n) - 1

(* the accumulated lines of the section that line j opens *)
SectionPieces(ls, j) ==
  LET piece(k) == IF k = j THEN Strip(RemoveAll(ls[j], INPUT_MARK))
                  ELSE IF StartsWith(ls[k], ACTION_MARK) THEN << >>
                  ELSE Strip(ls[k])
  IN SelectSeq([k \in 1..(SectionEnd(ls, j) - j + 1) |-> piece(j + k - 1)],
               LAMBDA x : x # << >>)

(* the accumulated lines of all sections opened at line j or later *)
RECURSIVE SectionsFrom(_, _)
SectionsFrom(ls, j) ==
  LET opens == { k \in j..Len(ls) : StartsWith(ls[k], INPUT_MARK) } IN
  IF opens = { } THEN << >>
  ELSE LET first == CHOOSE k \in opens : \A n \in opens : k <= n
       IN SectionPieces(ls, first) \o SectionsFrom(ls, first + 1)

(* ---------------------------------------------------------------------- *)
(* C32: when a text has several 'Action Input:' sections, the argument is  *)
(* the newline-join of the accumulated lines of all sections in order      *)
(* (decoded when that text parses as JSON): a new 'Action Input:' line     *)
(* discards nothing.  The tool name is taken from the last line beginning  *)
(* with 'Action:', wherever the sections are.                              *)
(* ---------------------------------------------------------------------- *)
C32_AllSectionsJoined ==
  (Parsed /\ Cardinality(InputLines(parse_text)) >= 2) =>
    /\ parse_result.value.action_input =
         DecodedOrRaw(Join(SectionsFrom(LinesOf(parse_text), 1), NL))
    /\ ActionLines(parse_text) # { } =>
         /\ parse_result.value.action.present
         /\ IsTrimOf(parse_result.value.action.name,
                     SelectSeq(LastActionLine(parse_text), LAMBDA t : t # ACTION_MARK))

(* two sections separated by an 'Observation:' line were parsed: both      *)
(* texts are in the argument, in order                                     *)
C32_Witness ==
  /\ Parsed
  /\ parse_text = ToolTwoInputs
  /\ Cardinality(InputLines(parse_text)) = 2
  /\ parse_result.value.action_input = [json |-> FALSE, value |-> << WORD, NL, OTHER_WORD >>]
  /\ parse_result.value.action.name = << SYM >>

(* ---------------------------------------------------------------------- *)
(* C33: two distinct patient identifiers never share a persisted           *)
(* transcript.  The file keys of two distinct identifiers differ, and a    *)
(* step taken for one patient changes what a load would return for no      *)
(* other patient identifier.                                               *)
(* ---------------------------------------------------------------------- *)
C33_TranscriptsSeparate ==
  [][ /\ \A a, b \in PatientIds : a # b => SafePatientId(a) # SafePatientId(b)
      /\ \A b \in PatientIds :
           b # patient_id => LoadChatHistory(b, files') = LoadChatHistory(b, files) ]_vars

(* ---------------------------------------------------------------------- *)
(* C34: after a change of the patient identifier the agent is a new        *)
(* instance whose Conversation holds the System message alone, or there is *)
(* no agent and agent_initialized is false.  The provider is only ever     *)
(* sent the Conversation of the present agent, which after the change      *)
(* grows by the turns of the new patient only; whenever agent_initialized  *)
(* is true the agent is present.                                           *)
(* ---------------------------------------------------------------------- *)
C34_NewAgentPerPatient ==
  [][ /\ patient_id' # patient_id =>
           \/ /\ agent_initialized' /\ agent' = "HealthGuardAgent"
              /\ messages' = << Message("system", HealthPrompt(given)) >>
           \/ /\ ~agent_initialized' /\ agent' = "None"
              /\ messages' = << >>
      /\ agent_initialized' => agent' = "HealthGuardAgent"
      /\ calls' # calls =>
           /\ agent_initialized /\ agent = "HealthGuardAgent"
           /\ sent' = messages
           /\ patient_id' = patient_id
      /\ (patient_id' = patient_id /\ agent_initialized) =>
           /\ IsPrefix(messages, messages')
           /\ Len(messages') <= Len(messages) + 1 ]_vars

(* a turn was answered for the default patient and saved, the identifier   *)
(* was changed, and the provider was called for the new patient with the   *)
(* System message and the new patient's message alone                      *)
C34_Witness ==
  /\ patient_id # DEFAULT_PATIENT
  /\ SafePatientId(patient_id) # DEFAULT_PATIENT
  /\ files[DEFAULT_PATIENT].exists
  /\ turns = 2 /\ calls = 2
  /\ agent_initialized
  /\ sent = << Message("system", HealthPrompt(given)),
               Message("user", << "Patient:", SP, "hello" >>) >>

(* the "Clear Current Chat History" button was pressed while the agent is  *)
(* initialised: the only step in which, between turns and for the same     *)
(* patient, the displayed history or a file changes                        *)
ClearChatStep ==
  /\ pc = "idle" /\ agent_initialized
  /\ patient_id' = patient_id /\ turns' = turns
  /\ (chat_history' # chat_history \/ files' # files)

(* ---------------------------------------------------------------------- *)
(* C35: 'Clear Current Chat History' resets the displayed history and the  *)
(* file of the current patient to the single welcome message and leaves    *)
(* the agent and its Conversation as they are, so the next provider call   *)
(* is still sent the messages of the earlier turns.                        *)
(* ---------------------------------------------------------------------- *)
C35_ClearChatKeepsConversation ==
  [][ /\ ClearChatStep =>
           /\ chat_history' = << Message("assistant", WELCOME) >>
           /\ LoadChatHistory(patient_id, files') = << Message("assistant", WELCOME) >>
           /\ messages' = messages
           /\ agent' = agent /\ agent_initialized'
           /\ sent' = sent /\ runs' = runs
      /\ (calls' # calls /\ patient_id' = patient_id) =>
           /\ sent' = messages ]_vars

(* after a turn the chat was cleared, and the provider call of the next    *)
(* turn was sent the messages of the turn before the clearing              *)
C35_Witness ==
  /\ Len(chat_history) = 2
  /\ chat_history[1] = Message("assistant", WELCOME)
  /\ chat_history[2].role = "user"
  /\ pc = "awaiting" /\ turns = 2 /\ calls = 2
  /\ Len(sent) = 4
  /\ sent[2].role = "user" /\ sent[3].role = "assistant" /\ sent[4].role = "user"

(* ---------------------------------------------------------------------- *)
(* Vocabulary of the tools' properties                                    *)
(* ---------------------------------------------------------------------- *)
(* the request names the action `name`, in any spelling of its letters *)
IsAction(data, name) ==
  /\ "action" \in DOMAIN data /\ data["action"].t = "str"
  /\ LowerStr(data["action"].s) = name

(* the request names no action, or one that is none of the five *)
UnknownAction(data) ==
  \/ "action" \notin DOMAIN data
  \/ /\ data["action"].t = "str"
     /\ \A name \in { << "a", "d", "d" >>, << "l", "i", "s", "t" >>, << "u", "p", "d", "a", "t", "e" >>,
                     << "l", "o", "g" >>, << "a", "d", "h", "e", "r", "e", "n", "c", "e" >> } :
          LowerStr(data["action"].s) # name

(* the integer v is the id of no row of the table *)
NoSuchMedication(v, table) == v.t = "int" /\ \A i \in 1..Len(table) : table[i].id # v.n

(* the requests the tool rejects, given the table medications *)
Rejected(data, table) ==
  \/ /\ IsAction(data, << "a", "d", "d" >>)
     /\ \E f \in {"patient_id", "name", "dosage", "frequency"} : f \notin DOMAIN data
  \/ /\ IsAction(data, << "l", "o", "g" >>)
     /\ \/ \E f \in {"medication_id", "taken"} : f \notin DOMAIN data
        \/ NoSuchMedication(data["medication_id"], table)
  \/ /\ IsAction(data, << "u", "p", "d", "a", "t", "e" >>)
     /\ \/ "id" \notin DOMAIN data
        \/ NoSuchMedication(data["id"], table)
  \/ UnknownAction(data)

ErrorTexts ==
  { "Missing required field: {}", "Medication with ID {} not found", "Missing medication ID for update",
    "Unknown action: {}. Supported actions are: add, list, update, log, adherence." }

(* ---------------------------------------------------------------------- *)
(* C36: a rejected MedicationTool request (an add or a log without a       *)
(* required field, a log or an update for an id that no medication has, an *)
(* update without id, an unknown action) returns an error text and leaves  *)
(* the tables medications and medication_logs as they were.                *)
(* ---------------------------------------------------------------------- *)
C36_RejectedRequestChangesNothing ==
  [][ (med_call'.kind \in {"dict", "text"} /\ Rejected(med_call'.data, medications)) =>
        /\ medications' = medications
        /\ medication_logs' = medication_logs
        /\ med_call'.raised = ""
        /\ med_call'.reply.format \in ErrorTexts ]_vars

(* after a medication was added and a dose logged, a log for an id that no *)
(* medication has was answered with the error text                         *)
C36_Witness ==
  /\ med_call.kind = "dict"
  /\ IsAction(med_call.data, << "l", "o", "g" >>)
  /\ DOMAIN med_call.data = {"action", "medication_id", "taken"}
  /\ med_call.data["medication_id"] = Py("int", 9, << >>)
  /\ med_call.reply = [format |-> "Medication with ID {} not found", args |-> << Py("int", 9, << >>) >>]
  /\ Len(medications) = Len(SampleData.medications) + 1
  /\ Len(medication_logs) = Len(SampleData.medication_logs) + 1

(* the keywords of a sensitive query *)
SensitiveKeywords ==
  { << "d", "i", "a", "g", "n", "o", "s", "e" >>,
    << "d", "i", "a", "g", "n", "o", "s", "i", "s" >>,
    << "c", "a", "n", "c", "e", "r" >>,
    << "t", "e", "r", "m", "i", "n", "a", "l" >>,
    << "f", "a", "t", "a", "l" >>,
    << "e", "m", "e", "r", "g", "e", "n", "c", "y" >>,
    << "l", "i", "f", "e", "-", "t", "h", "r", "e", "a", "t", "e", "n", "i", "n", "g" >>,
    << "c", "r", "i", "t", "i", "c", "a", "l" >>,
    << "u", "r", "g", "e", "n", "t", " ", "m", "e", "d", "i", "c", "a", "l" >>,
    << "s", "u", "i", "c", "i", "d", "e" >>,
    << "s", "e", "l", "f", "-", "h", "a", "r", "m" >> }

(* the query holds one of the keywords, whatever the case of its letters *)
KeywordInQuery(q) ==
  \E keyword \in SensitiveKeywords : \E at \in 1..Len(q) :
    /\ at + Len(keyword) - 1 <= Len(q)
    /\ \A k \in 1..Len(keyword) : LowerStr(<< q[at + k - 1] >>) = << keyword[k] >>

(* ---------------------------------------------------------------------- *)
(* C37: for a query that holds a sensitive keyword in any letter case,     *)
(* MedicalInfoTool.run posts nothing to the search API, with or without an *)
(* API key, and returns the language model's response between the          *)
(* sensitivity warning and the advice to consult a professional.           *)
(* ---------------------------------------------------------------------- *)
C37_SensitiveQueryNeverSearches ==
  (/\ info_call.status = "returned"
   /\ info_call.prompt.t = "str"
   /\ KeywordInQuery(info_call.prompt.s)) =>
     /\ ares_requests = << >>
     /\ info_call.raised = ""
     /\ llm_requests = << "sensitive" >>
     /\ info_call.llm_response # << >>
     /\ info_call.reply =
          << "[warning sign] This appears to be a sensitive medical question. While I can provide general information, I'm not qualified to provide medical diagnoses or emergency advice.\n\n" >>
            \o info_call.llm_response
            \o << "\n\n", "Please consult with a qualified healthcare professional for proper medical guidance." >>

(* with an API key configured, a query with the keyword in capitals was    *)
(* answered with the wrapped response                                      *)
C37_Witness ==
  /\ info_call.status = "returned"
  /\ ares_api_key = Py("str", 0, << "ares-key" >>)
  /\ info_call.prompt = Py("str", 0, << "I", "s", " ", "i", "t", " ", "C", "A", "N", "C", "E", "R", "d", "?" >>)
  /\ info_call.llm_response = << "general information" >>
  /\ Len(info_call.reply) = 4
  /\ ares_requests = << >>

(* the severity words and their numbers *)
SeverityWords ==
  { << << "m", "i", "l", "d" >>, 3 >>,
    << << "l", "i", "g", "h", "t" >>, 3 >>,
    << << "m", "i", "n", "o", "r" >>, 2 >>,
    << << "m", "i", "n", "i", "m", "a", "l" >>, 1 >>,
    << << "s", "l", "i", "g", "h", "t" >>, 2 >>,
    << << "m", "o", "d", "e", "r", "a", "t", "e" >>, 5 >>,
    << << "m", "e", "d", "i", "u", "m" >>, 5 >>,
    << << "a", "v", "e", "r", "a", "g", "e" >>, 5 >>,
    << << "s", "e", "v", "e", "r", "e" >>, 8 >>,
    << << "i", "n", "t", "e", "n", "s", "e" >>, 8 >>,
    << << "e", "x", "t", "r", "e", "m", "e" >>, 10 >>,
    << << "w", "o", "r", "s", "t" >>, 10 >>,
    << << "s", "e", "r", "i", "o", "u", "s" >>, 9 >>,
    << << "v", "e", "r", "y", " ", "m", "i", "l", "d" >>, 2 >>,
    << << "v", "e", "r", "y", " ", "s", "e", "v", "e", "r", "e" >>, 9 >> }

(* ---------------------------------------------------------------------- *)
(* C38: every row that SymptomTool's log action writes has an integer      *)
(* severity in 1..10: an integer in the range is kept, one outside it is   *)
(* clamped to the nearer end, a known severity word is mapped, an unknown  *)
(* word and a value that is no number become 5.                            *)
(* ---------------------------------------------------------------------- *)
C38_SeverityStoredInRange ==
  [][ Len(symptoms') > Len(symptoms) =>
        LET row == symptoms'[Len(symptoms')]
            supplied == symptom_call'.data["severity"]
        IN  /\ Len(symptoms') = Len(symptoms) + 1
            /\ row.severity.t = "int" /\ row.severity.n \in 1..10
            /\ supplied.t = "int" =>
                 row.severity.n = IF supplied.n < 1 THEN 1
                                  ELSE IF supplied.n > 10 THEN 10 ELSE supplied.n
            /\ supplied.t = "str" =>
                 IF \E e \in SeverityWords : e[1] = LowerStr(supplied.s)
                 THEN << LowerStr(supplied.s), row.severity.n >> \in SeverityWords
                 ELSE row.severity.n = 5
            /\ supplied.t \in {"NoneType", "list"} => row.severity.n = 5
            /\ (supplied.t = "float" /\ supplied.s = << "nan" >>) => row.severity.n = 5 ]_vars

(* two rows were logged: one for a severity below the range, one for a     *)
(* severity above it                                                       *)
C38_Witness ==
  /\ Len(symptoms) = Len(SampleData.symptoms) + 2
  /\ symptoms[Len(symptoms) - 1].severity = Py("int", 1, << >>)
  /\ symptoms[Len(symptoms)].severity = Py("int", 10, << >>)
  /\ symptom_call.kind = "dict"
  /\ symptom_call.data["severity"] = Py("int", 250, << >>)
  /\ symptom_call.reply = [format |-> "Logged {} {} symptom.",
                           args |-> << Py("str", 0, << "extreme" >>), Py("str", 0, << "Nausea" >>) >>]

====
